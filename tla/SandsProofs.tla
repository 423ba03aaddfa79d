---------------------------- MODULE SandsProofs -----------------------------
(***************************************************************************)
(* Proofs about the broker for any sets of descriptors, ids, topics and    *)
(* connect commands.  RegistryLive and AuthSubscribed hold whatever the    *)
(* clients send and however writes fail; the rest of the inductive         *)
(* invariant says what a connection owns between two callbacks and inside  *)
(* the one that connects it.                                               *)
(***************************************************************************)
EXTENDS Sands, TLAPS, SequenceTheorems

(* A connection has parameters only once its connect command has passed    *)
(* the checks; a refused one never survives the callback with the          *)
(* parameters climap.param was given before them (sands.lua:91, 184-229).  *)
ParamAfterConnect ==
    \A fd \in Fds : param[fd] # NoParam =>
        \/ state[fd] = "auth"
        \/ state[fd] = "new" /\ cont # NoCont /\ cont.op = "cn" /\ cont.fd = fd

(* Parameters and the topic map agree, also before the state is st_auth. *)
NamedSubscribed ==
    \A fd \in Fds : param[fd] # NoParam =>
        \A tp \in param[fd].tp : fd \in topic2client[tp]

AuthNamed == \A fd \in Fds : state[fd] = "auth" => param[fd] # NoParam

(* The connection whose connect command is being answered has its          *)
(* parameters, unless it has been closed meanwhile.                        *)
CnNamed ==
    cont # NoCont => (cont.op = "cn" /\ Live(cont.fd) => param[cont.fd] # NoParam)

IInv ==
    /\ TypeOK
    /\ RegistryLive
    /\ ParamAfterConnect
    /\ NamedSubscribed
    /\ AuthNamed
    /\ CnNamed

-----------------------------------------------------------------------------
(* Publishing pushes a well-formed frame (do_publish). *)
LEMMA PushType ==
    ASSUME NEW tp \in Topics \cup {NoTopic},
           NEW tmap \in [Topics -> SUBSET Fds],
           NEW st \in Seq(Frame)
    PROVE  PushPublish(tp, tmap, st) \in Seq(Frame)
<1>1. CASE tp = NoTopic
  BY <1>1 DEF PushPublish
<1>2. CASE tp # NoTopic
  <2>1. [tp |-> tp, todo |-> tmap[tp]] \in Frame
    BY <1>2 DEF Frame
  <2>2. <<[tp |-> tp, todo |-> tmap[tp]]>> \in Seq(Frame)
    BY <2>1
  <2>3. <<[tp |-> tp, todo |-> tmap[tp]]>> \o st \in Seq(Frame)
    BY <2>2, ConcatProperties
  <2> QED BY <1>2, <2>3 DEF PushPublish
<1> QED BY <1>1, <1>2

(* Removing a connection from topics keeps the shape of the topic map. *)
LEMMA UnsubscribeType ==
    ASSUME NEW fd \in Fds, NEW tps \in SUBSET Topics,
           NEW tmap \in [Topics -> SUBSET Fds]
    PROVE  Unsubscribe(fd, tps, tmap) \in [Topics -> SUBSET Fds]
BY DEF Unsubscribe

(* Registering a connection for topics keeps the shape of the topic map. *)
LEMMA SubscribeType ==
    ASSUME TypeOK, NEW fd \in Fds, NEW r \in ConnReqs
    PROVE  Subscribe(fd, r) \in [Topics -> SUBSET Fds]
BY DEF TypeOK, Subscribe

(* The parameters of a connect command that has a client id. *)
LEMMA ParamOfType ==
    ASSUME NEW r \in ConnReqs, r.cd # NoId
    PROVE  /\ ParamOf(r) \in Param
           /\ ParamOf(r) # NoParam
           /\ ParamOf(r).cd = r.cd
           /\ ParamOf(r).wt = r.wt
           /\ ParamOf(r).tp = IF r.valid /\ ~r.gap THEN r.tp ELSE {}
<1>1. r \in ConnReq
  BY ConnReqsAssumption
<1>2. ParamOf(r) \in Param
  BY <1>1 DEF ConnReq, ParamOf, Param
<1> QED BY <1>2, NoParamAssumption DEF ParamOf

(* Taking one subscriber out of the innermost frame. *)
LEMMA VisitedType ==
    ASSUME TypeOK, stack # <<>>, NEW fd \in Fds
    PROVE  Visited(fd) \in Seq(Frame)
<1>1. stack[1] \in Frame /\ Tail(stack) \in Seq(Frame)
  BY DEF TypeOK
<1>2. [stack[1] EXCEPT !.todo = @ \ {fd}] \in Frame
  BY <1>1 DEF Frame
<1>3. <<[stack[1] EXCEPT !.todo = @ \ {fd}]>> \in Seq(Frame)
  BY <1>2
<1> QED BY <1>1, <1>3, ConcatProperties DEF Visited

(* A crash leaves the invariant true of an empty broker. *)
LEMMA CrashKeeps ==
    ASSUME Crash PROVE IInv'
<1>1. up' \in BOOLEAN /\ partial' \in [Fds -> BOOLEAN]
  BY Zenon DEF Crash
<1>2. /\ state' \in [Fds -> {"none", "new", "auth"}]
      /\ param' \in [Fds -> Param \cup {NoParam}]
      /\ timer' \in [Fds -> Nat]
  BY DEF Crash
<1>3. /\ clientid2fd' \in [Ids -> Fds \cup {NoFd}]
      /\ topic2client' \in [Topics -> SUBSET Fds]
      /\ stack' \in Seq(Frame)
      /\ cont' \in Cont \cup {NoCont}
  BY DEF Crash
<1>4. TypeOK'
  BY <1>1, <1>2, <1>3 DEF TypeOK
<1> QED BY <1>4 DEF Crash, IInv, RegistryLive, ParamAfterConnect,
           NamedSubscribed, AuthNamed, CnNamed, Live

(* close_client keeps the invariant: called on a connection with its own   *)
(* parameters, or on an unnamed one with those of a refused command.       *)
LEMMA CloseKeeps ==
    ASSUME IInv,
           NEW fd \in Fds,
           NEW p \in Param \cup {NoParam},
           NEW tmap \in [Topics -> SUBSET Fds],
           NEW st \in Seq(Frame),
           p = param[fd] \/ param[fd] = NoParam,
           \A g \in Fds \ {fd} : \A tp \in Topics :
               g \in topic2client[tp] => g \in tmap[tp],
           CloseClient(fd, p, tmap, st),
           up' = up,
           cont' = cont \/ (cont' = NoCont /\ cont # NoCont /\ cont.fd = fd)
    PROVE  IInv'
<1> USE NoParamAssumption, NoContAssumption, ConstantsAssumption
<1>0. /\ TypeOK
      /\ state' = [state EXCEPT ![fd] = "none"]
      /\ param' = [param EXCEPT ![fd] = NoParam]
      /\ partial' = [partial EXCEPT ![fd] = FALSE]
      /\ timer' = [timer EXCEPT ![fd] = 0]
  BY DEF IInv, CloseClient
<1>1. CASE p = NoParam
  <2>0. /\ topic2client' = tmap
        /\ stack' = st
        /\ clientid2fd' = clientid2fd
    BY <1>1 DEF CloseClient
  <2>1. TypeOK'
    BY <1>0, <2>0 DEF TypeOK
  <2>2. RegistryLive'
    <3>1. \A id \in Ids : clientid2fd[id] # fd
      BY <1>1 DEF IInv, RegistryLive, TypeOK
    <3> QED BY <1>0, <2>0, <3>1 DEF IInv, RegistryLive, TypeOK, Live
  <2>3. NamedSubscribed'
    BY <1>0, <2>0 DEF IInv, NamedSubscribed, TypeOK, Param
  <2>4. ParamAfterConnect' /\ AuthNamed' /\ CnNamed'
    BY <1>0 DEF IInv, ParamAfterConnect, AuthNamed, CnNamed, TypeOK, Live, Cont
  <2> QED BY <2>1, <2>2, <2>3, <2>4 DEF IInv
<1>2. CASE p # NoParam
  <2>0. /\ topic2client' = Unsubscribe(fd, p.tp, tmap)
        /\ clientid2fd' = [clientid2fd EXCEPT ![p.cd] = NoFd]
        /\ stack' = PushPublish(p.wt, Unsubscribe(fd, p.tp, tmap), st)
    BY <1>2 DEF CloseClient, Unregister
  <2>p. p \in Param /\ p.tp \in SUBSET Topics /\ p.cd \in Ids
        /\ p.wt \in Topics \cup {NoTopic}
    BY <1>2 DEF Param
  <2>u. Unsubscribe(fd, p.tp, tmap) \in [Topics -> SUBSET Fds]
    BY <2>p, UnsubscribeType
  <2>s. stack' \in Seq(Frame)
    BY <2>0, <2>p, <2>u, PushType
  <2>1. TypeOK'
    <3>1. clientid2fd' \in [Ids -> Fds \cup {NoFd}]
      BY <1>0, <2>0, <2>p DEF TypeOK
    <3>2. state' \in [Fds -> {"none", "new", "auth"}]
          /\ param' \in [Fds -> Param \cup {NoParam}]
          /\ partial' \in [Fds -> BOOLEAN]
          /\ timer' \in [Fds -> Nat]
          /\ cont' \in Cont \cup {NoCont}
          /\ up' \in BOOLEAN
      BY <1>0 DEF TypeOK
    <3> QED BY <3>1, <3>2, <2>0, <2>u, <2>s DEF TypeOK
  <2>2. RegistryLive'
    <3>1. \A id \in Ids : id # p.cd => clientid2fd[id] # fd
      BY <1>2 DEF IInv, RegistryLive, TypeOK
    <3> QED BY <1>0, <2>0, <2>p, <3>1 DEF IInv, RegistryLive, TypeOK, Live
  <2>3. NamedSubscribed'
    <3> SUFFICES ASSUME NEW g \in Fds, param'[g] # NoParam,
                        NEW tp \in param'[g].tp
                 PROVE  g \in topic2client'[tp]
      BY DEF NamedSubscribed
    <3>1. g # fd /\ param'[g] = param[g] /\ param[g] \in Param
      BY <1>0 DEF TypeOK
    <3>2. tp \in Topics /\ g \in topic2client[tp]
      BY <3>1 DEF IInv, NamedSubscribed, Param
    <3> QED BY <2>0, <3>1, <3>2 DEF Unsubscribe
  <2>4. ParamAfterConnect' /\ AuthNamed' /\ CnNamed'
    BY <1>0 DEF IInv, ParamAfterConnect, AuthNamed, CnNamed, TypeOK, Live, Cont
  <2> QED BY <2>1, <2>2, <2>3, <2>4 DEF IInv
<1> QED BY <1>1, <1>2

-----------------------------------------------------------------------------
LEMMA InitIInv == Init => IInv
<1> SUFFICES ASSUME Init PROVE IInv
  OBVIOUS
<1>1. up \in BOOLEAN /\ partial \in [Fds -> BOOLEAN]
  BY Zenon DEF Init, InitBroker
<1>2. /\ state \in [Fds -> {"none", "new", "auth"}]
      /\ param \in [Fds -> Param \cup {NoParam}]
      /\ timer \in [Fds -> Nat]
      /\ clientid2fd \in [Ids -> Fds \cup {NoFd}]
      /\ topic2client \in [Topics -> SUBSET Fds]
      /\ stack \in Seq(Frame)
      /\ cont \in Cont \cup {NoCont}
  BY DEF Init, InitBroker
<1>3. TypeOK
  BY <1>1, <1>2 DEF TypeOK
<1> QED BY <1>3 DEF Init, InitBroker, IInv, RegistryLive, ParamAfterConnect,
           NamedSubscribed, AuthNamed, CnNamed, Live

(* on_connection takes a descriptor that nothing refers to. *)
LEMMA OnConnectionKeeps ==
    ASSUME IInv, NEW fd \in Fds, OnConnection(fd) PROVE IInv'
<1> USE NoContAssumption, ConstantsAssumption
<1>1. TypeOK'
  BY DEF IInv, TypeOK, OnConnection, calls
<1>2. param[fd] = NoParam
  BY DEF IInv, ParamAfterConnect, OnConnection, Live
<1>3. RegistryLive'
  BY <1>2 DEF IInv, TypeOK, RegistryLive, OnConnection, Live, calls
<1>4. ParamAfterConnect' /\ NamedSubscribed' /\ AuthNamed'
  BY <1>2 DEF IInv, TypeOK, ParamAfterConnect, NamedSubscribed, AuthNamed,
              OnConnection, Live, calls
<1>5. CnNamed'
  BY DEF OnConnection, Idle, Busy, CnNamed, calls
<1> QED BY <1>1, <1>3, <1>4, <1>5 DEF IInv

(* The callbacks that only close the connection. *)
LEMMA DropKeeps ==
    ASSUME IInv, NEW fd \in Fds, Drop(fd) PROVE IInv'
<1>1. /\ param[fd] \in Param \cup {NoParam}
      /\ topic2client \in [Topics -> SUBSET Fds]
      /\ stack \in Seq(Frame)
  BY DEF IInv, TypeOK
<1> QED BY <1>1, CloseKeeps DEF Drop

(* A refused connect command. *)
LEMMA CmdCnRefusedKeeps ==
    ASSUME IInv, NEW fd \in Fds, NEW r \in ConnReqs, CmdCnRefused(fd, r)
    PROVE  IInv'
<1>1. CASE r.cd = NoId
  BY <1>1, CrashKeeps DEF CmdCnRefused
<1>2. CASE r.cd # NoId
  <2>1. ParamOf(r) \in Param \cup {NoParam}
    BY <1>2, ParamOfType
  <2>2. Subscribe(fd, r) \in [Topics -> SUBSET Fds]
    BY SubscribeType DEF IInv
  <2>3. param[fd] = NoParam
    BY DEF IInv, ParamAfterConnect, CmdCnRefused, Idle, Busy
  <2>4. \A g \in Fds \ {fd} : \A tp \in Topics :
            g \in topic2client[tp] => g \in Subscribe(fd, r)[tp]
    BY DEF Subscribe
  <2>5. stack \in Seq(Frame)
    BY DEF IInv, TypeOK
  <2> QED BY <1>2, <2>1, <2>2, <2>3, <2>4, <2>5, CloseKeeps DEF CmdCnRefused
<1> QED BY <1>1, <1>2

(* An admitted connect command, up to its announcement. *)
LEMMA CmdCnKeeps ==
    ASSUME IInv, NEW fd \in Fds, NEW r \in ConnReqs, NEW rest \in BOOLEAN,
           CmdCn(fd, r, rest)
    PROVE  IInv'
<1> USE NoParamAssumption, NoContAssumption, ConstantsAssumption
<1>1. r \in ConnReq /\ r.cd # NoId /\ r.cd \in Ids
  BY ConnReqsAssumption DEF CmdCn, Admissible, ConnReq
<1>2. /\ ParamOf(r) \in Param
      /\ ParamOf(r) # NoParam
      /\ ParamOf(r).cd = r.cd
      /\ ParamOf(r).tp = r.tp
  BY <1>1, ParamOfType DEF CmdCn, Admissible
<1>3. Subscribe(fd, r) \in [Topics -> SUBSET Fds]
  BY SubscribeType DEF IInv
<1>4. stack' \in Seq(Frame)
  <2>1. stack \in Seq(Frame) /\ r.ct \in Topics \cup {NoTopic}
    BY <1>1 DEF IInv, TypeOK, ConnReq
  <2> QED BY <2>1, <1>3, PushType DEF CmdCn
<1>5. [op |-> "cn", fd |-> fd, rest |-> rest] \in Cont
  BY DEF Cont
<1>6. param[fd] = NoParam
  BY DEF IInv, ParamAfterConnect, CmdCn, Idle, Busy
<1>7. TypeOK'
  <2>1. /\ param' \in [Fds -> Param \cup {NoParam}]
        /\ clientid2fd' \in [Ids -> Fds \cup {NoFd}]
    BY <1>1, <1>2 DEF IInv, TypeOK, CmdCn
  <2>2. topic2client' \in [Topics -> SUBSET Fds]
    BY <1>3 DEF CmdCn
  <2>3. /\ up' = up /\ state' = state /\ partial' = partial /\ timer' = timer
        /\ cont' \in Cont
    BY <1>5 DEF CmdCn
  <2> QED BY <2>1, <2>2, <2>3, <1>4 DEF IInv, TypeOK
<1>8. RegistryLive'
  <2>1. \A id \in Ids : clientid2fd[id] # fd
    BY <1>6 DEF IInv, RegistryLive
  <2> QED BY <1>1, <1>2, <2>1 DEF IInv, RegistryLive, TypeOK, CmdCn, Live
<1>9. NamedSubscribed'
  BY <1>1, <1>2 DEF IInv, NamedSubscribed, TypeOK, CmdCn, Subscribe, Admissible,
                    ConnReq, Param
<1>10. ParamAfterConnect'
  BY <1>5 DEF IInv, ParamAfterConnect, TypeOK, CmdCn, Idle, Busy
<1>11. AuthNamed' /\ CnNamed'
  BY <1>2 DEF IInv, AuthNamed, CnNamed, TypeOK, CmdCn
<1> QED BY <1>7, <1>8, <1>9, <1>10, <1>11 DEF IInv

(* Data without a complete command, a ping, and the passing of time change *)
(* only buffers and timers.                                                *)
LEMMA TimersKeep ==
    ASSUME IInv, partial' \in [Fds -> BOOLEAN], timer' \in [Fds -> Nat],
           UNCHANGED <<up, state, param, clientid2fd, topic2client, stack, cont>>
    PROVE  IInv'
BY DEF IInv, TypeOK, RegistryLive, ParamAfterConnect, NamedSubscribed,
       AuthNamed, CnNamed, Live

LEMMA EndDataType ==
    ASSUME TypeOK, NEW fd \in Fds, NEW rest \in BOOLEAN, EndData(fd, rest)
    PROVE  partial' \in [Fds -> BOOLEAN] /\ timer' \in [Fds -> Nat]
<1>1. partial' \in [Fds -> BOOLEAN]
  BY Zenon DEF TypeOK, EndData
<1>2. timer' \in [Fds -> Nat]
  BY ConstantsAssumption DEF TypeOK, EndData
<1> QED BY <1>1, <1>2

(* A publish command opens a frame and waits for it. *)
LEMMA CmdPbKeeps ==
    ASSUME IInv, NEW fd \in Fds, NEW tp \in Topics, NEW rest \in BOOLEAN,
           CmdPb(fd, tp, rest)
    PROVE  IInv'
<1> USE NoContAssumption
<1>1. [op |-> "pb", fd |-> fd, rest |-> rest] \in Cont
  BY DEF Cont
<1>2. stack' \in Seq(Frame)
  BY PushType DEF CmdPb, IInv, TypeOK
<1>3. cont = NoCont /\ cont' \in Cont /\ cont'.op = "pb"
  BY <1>1 DEF CmdPb, Idle, Busy
<1>4. UNCHANGED <<up, state, param, partial, timer, clientid2fd, topic2client>>
  BY DEF CmdPb, conns
<1> QED BY <1>2, <1>3, <1>4 DEF IInv, TypeOK, RegistryLive, ParamAfterConnect,
           NamedSubscribed, AuthNamed, CnNamed, Live

(* A change of the call stack alone. *)
LEMMA StackKeeps ==
    ASSUME IInv, stack' \in Seq(Frame),
           UNCHANGED <<up, conns, clientid2fd, topic2client, cont>>
    PROVE  IInv'
BY DEF IInv, TypeOK, RegistryLive, ParamAfterConnect, NamedSubscribed,
       AuthNamed, CnNamed, Live, conns

LEMMA PublishToKeeps ==
    ASSUME IInv, NEW fd \in Fds, PublishTo(fd) PROVE IInv'
<1>1. Visited(fd) \in Seq(Frame)
  BY VisitedType DEF IInv, PublishTo
<1>2. CASE Crash
  BY <1>2, CrashKeeps
<1>3. CASE /\ stack' = Visited(fd)
           /\ UNCHANGED <<up, conns, clientid2fd, topic2client, cont>>
  BY <1>1, <1>3, StackKeeps
<1>4. CASE /\ CloseClient(fd, param[fd], topic2client, Visited(fd))
           /\ UNCHANGED <<up, cont>>
  <2>1. /\ param[fd] \in Param \cup {NoParam}
        /\ topic2client \in [Topics -> SUBSET Fds]
    BY DEF IInv, TypeOK
  <2> QED BY <1>1, <1>4, <2>1, CloseKeeps
<1> QED BY <1>2, <1>3, <1>4 DEF PublishTo

(* The return to the handler that was publishing. *)
LEMMA ReturnKeeps ==
    ASSUME IInv, Return PROVE IInv'
<1> DEFINE fd == cont.fd
<1> USE NoContAssumption
<1>0. /\ cont \in Cont /\ fd \in Fds /\ cont.rest \in BOOLEAN
      /\ cont # NoCont
  BY DEF Return, IInv, TypeOK, Cont
<1>1. CASE cont.op = "cn" /\ CnReturn(fd)
  <2>1. CASE /\ Live(fd)
             /\ state' = [state EXCEPT ![fd] = "auth"]
             /\ EndData(fd, cont.rest)
             /\ UNCHANGED <<param, clientid2fd, topic2client, stack>>
    <3>1. partial' \in [Fds -> BOOLEAN] /\ timer' \in [Fds -> Nat]
      BY <1>0, <2>1, EndDataType DEF IInv
    <3>2. cont' = NoCont /\ up' = up
      BY <1>1 DEF CnReturn
    <3>3. TypeOK'
      BY <1>0, <2>1, <3>1, <3>2 DEF IInv, TypeOK
    <3>4. param[fd] # NoParam
      BY <1>0, <1>1, <2>1 DEF IInv, CnNamed
    <3>5. RegistryLive' /\ NamedSubscribed'
      BY <1>0, <2>1 DEF IInv, TypeOK, RegistryLive, NamedSubscribed, Live
    <3>6. ParamAfterConnect'
      <4> SUFFICES ASSUME NEW g \in Fds, param'[g] # NoParam
                   PROVE  state'[g] = "auth"
        BY DEF ParamAfterConnect
      <4>1. CASE g = fd
        BY <1>0, <2>1, <4>1 DEF IInv, TypeOK
      <4>2. CASE g # fd
        BY <1>0, <2>1, <4>2 DEF IInv, TypeOK, ParamAfterConnect
      <4> QED BY <4>1, <4>2
    <3>7. AuthNamed'
      BY <1>0, <2>1, <3>4 DEF IInv, TypeOK, AuthNamed
    <3>8. CnNamed'
      BY <3>2 DEF CnNamed
    <3> QED BY <3>3, <3>5, <3>6, <3>7, <3>8 DEF IInv
  <2>2. CASE CloseClient(fd, param[fd], topic2client, stack)
    <3>1. /\ param[fd] \in Param \cup {NoParam}
          /\ topic2client \in [Topics -> SUBSET Fds]
          /\ stack \in Seq(Frame)
      BY <1>0 DEF IInv, TypeOK
    <3> QED BY <1>0, <1>1, <2>2, <3>1, CloseKeeps DEF CnReturn
  <2> QED BY <1>1, <2>1, <2>2 DEF CnReturn
<1>2. CASE cont.op = "pb" /\ PbReturn(fd)
  <2>1. partial' \in [Fds -> BOOLEAN] /\ timer' \in [Fds -> Nat]
    BY <1>0, <1>2, EndDataType DEF IInv, PbReturn
  <2>2. cont' = NoCont
        /\ UNCHANGED <<up, state, param, clientid2fd, topic2client, stack>>
    BY <1>2 DEF PbReturn
  <2> QED BY <1>0, <1>2, <2>1, <2>2 DEF IInv, TypeOK, RegistryLive,
             ParamAfterConnect, NamedSubscribed, AuthNamed, CnNamed, Live
<1>3. CASE SelfClosedReturn(fd)
  <2>1. CASE Crash
    BY <2>1, CrashKeeps
  <2>2. CASE /\ cont.op = "pb"
             /\ cont' = NoCont
             /\ UNCHANGED <<up, conns, clientid2fd, topic2client, stack>>
    BY <1>0, <2>2 DEF IInv, TypeOK, RegistryLive, ParamAfterConnect,
       NamedSubscribed, AuthNamed, CnNamed, Live, conns
  <2> QED BY <1>3, <2>1, <2>2 DEF SelfClosedReturn
<1> QED BY <1>1, <1>2, <1>3 DEF Return

-----------------------------------------------------------------------------
(* The inductive step: every callback, every step inside one, every crash  *)
(* and restart keeps the invariant.                                        *)
LEMMA NextIInv == IInv /\ [Next]_vars => IInv'
<1> SUFFICES ASSUME IInv, [Next]_vars PROVE IInv'
  OBVIOUS
<1>1. ASSUME NEW fd \in Fds, Callback(fd) PROVE IInv'
  <2>1. CASE OnConnection(fd)
    BY <2>1, OnConnectionKeeps
  <2>2. CASE OnEof(fd) \/ OnTimeout(fd) \/ BadData(fd) \/ CmdDc(fd) \/ CmdRefused(fd)
    BY <2>2, DropKeeps DEF OnEof, OnTimeout, BadData, CmdDc, CmdRefused
  <2>3. CASE PartialData(fd)
    <3>1. partial' \in [Fds -> BOOLEAN]
      BY <2>3, Zenon DEF PartialData, IInv, TypeOK
    <3> QED BY <2>3, <3>1, TimersKeep DEF PartialData, IInv, TypeOK, calls
  <2>4. CASE \E r \in ConnReqs : CmdCnRefused(fd, r)
    BY <2>4, CmdCnRefusedKeeps
  <2>5. CASE \E r \in ConnReqs, rest \in BOOLEAN : CmdCn(fd, r, rest)
    BY <2>5, CmdCnKeeps
  <2>6. CASE \E tp \in Topics, rest \in BOOLEAN : CmdPb(fd, tp, rest)
    BY <2>6, CmdPbKeeps
  <2>7. CASE \E rest \in BOOLEAN : CmdPi(fd, rest)
    <3>1. PICK rest \in BOOLEAN : CmdPi(fd, rest)
      BY <2>7
    <3>2. partial' \in [Fds -> BOOLEAN] /\ timer' \in [Fds -> Nat]
      BY <3>1, EndDataType DEF CmdPi, IInv
    <3> QED BY <3>1, <3>2, TimersKeep DEF CmdPi, calls
  <2> QED BY <1>1, <2>1, <2>2, <2>3, <2>4, <2>5, <2>6, <2>7 DEF Callback
<1>2. CASE Inside
  <2>1. ASSUME PublishEnd PROVE IInv'
    BY <2>1, StackKeeps DEF PublishEnd, IInv, TypeOK
  <2> QED BY <1>2, <2>1, PublishToKeeps, ReturnKeeps DEF Inside
<1>3. CASE Tick
  <2>1. timer' \in [Fds -> Nat]
    BY <1>3 DEF Tick, IInv, TypeOK
  <2> QED BY <1>3, <2>1, TimersKeep DEF Tick, IInv, TypeOK, calls
<1>4. CASE Restart
  BY <1>4, Zenon DEF Restart, IInv, TypeOK, RegistryLive, ParamAfterConnect,
     NamedSubscribed, AuthNamed, CnNamed, Live, conns, calls
<1>5. CASE UNCHANGED vars
  BY <1>5 DEF vars, IInv, TypeOK, RegistryLive, ParamAfterConnect,
     NamedSubscribed, AuthNamed, CnNamed, Live
<1> QED BY <1>1, <1>2, <1>3, <1>4, <1>5 DEF Next

(* The inductive invariant holds of every behaviour of the broker. *)
THEOREM Invariance == Spec => []IInv
<1>1. Init => IInv
  BY InitIInv
<1>2. IInv /\ [Next]_vars => IInv'
  BY NextIInv
<1> QED BY <1>1, <1>2, PTL DEF Spec

(* The tables keep their shape (type invariant of the broker). *)
THEOREM TypeCorrect == Spec => []TypeOK
<1>1. IInv => TypeOK
  BY DEF IInv
<1> QED BY <1>1, Invariance, PTL

(* clientid2fd never refers to a closed connection, nor to one that has    *)
(* another id: for any clients, any write failures, any crashes.           *)
THEOREM RegistryIsLive == Spec => []RegistryLive
<1>1. IInv => RegistryLive
  BY DEF IInv
<1> QED BY <1>1, Invariance, PTL

(* An authenticated connection is subscribed to all its topics, whatever   *)
(* happens to the other connections.                                       *)
THEOREM AuthIsSubscribed == Spec => []AuthSubscribed
<1>1. IInv => AuthSubscribed
  BY DEF IInv, NamedSubscribed, AuthNamed, AuthSubscribed, TypeOK
<1> QED BY <1>1, Invariance, PTL

(* No refused connection keeps parameters past its callback. *)
THEOREM ParamsAreChecked == Spec => []ParamAfterConnect
<1>1. IInv => ParamAfterConnect
  BY DEF IInv
<1> QED BY <1>1, Invariance, PTL

-----------------------------------------------------------------------------
(* Clients that send no empty topic. *)
NoEmptyTopic == \A r \in ConnReqs : ~r.gap

(* close_client takes the connection off every topic it is registered for. *)
LEMMA CloseSubscribers ==
    ASSUME TypeOK, SubscribersLive,
           NEW fd \in Fds,
           NEW p \in Param \cup {NoParam},
           NEW tmap \in [Topics -> SUBSET Fds],
           NEW st,
           \A tp \in Topics : fd \in tmap[tp] => p # NoParam /\ tp \in p.tp,
           \A tp \in Topics : tmap[tp] \subseteq topic2client[tp] \cup {fd},
           CloseClient(fd, p, tmap, st)
    PROVE  SubscribersLive'
<1> SUFFICES ASSUME NEW tp \in Topics, NEW g \in topic2client'[tp]
             PROVE  /\ state'[g] # "none"
                    /\ param'[g] # NoParam
                    /\ tp \in param'[g].tp
  BY DEF SubscribersLive, Live
<1>1. g \in tmap[tp] /\ g # fd
  BY DEF CloseClient, Unsubscribe
<1>2. g \in topic2client[tp] /\ g \in Fds
  BY <1>1
<1>3. state'[g] = state[g] /\ param'[g] = param[g]
  BY <1>1, <1>2 DEF CloseClient, TypeOK
<1> QED BY <1>2, <1>3 DEF SubscribersLive, Live

LEMMA NextSubscribers ==
    ASSUME NoEmptyTopic
    PROVE  IInv /\ SubscribersLive /\ [Next]_vars => SubscribersLive'
<1> SUFFICES ASSUME IInv, SubscribersLive, [Next]_vars PROVE SubscribersLive'
  OBVIOUS
<1> USE DEF IInv
<1>0. ASSUME Crash PROVE SubscribersLive'
  BY <1>0 DEF Crash, SubscribersLive
<1>c. ASSUME NEW fd \in Fds, NEW st, CloseClient(fd, param[fd], topic2client, st)
      PROVE  SubscribersLive'
  <2>1. /\ param[fd] \in Param \cup {NoParam}
        /\ topic2client \in [Topics -> SUBSET Fds]
    BY DEF TypeOK
  <2>2. \A tp \in Topics : fd \in topic2client[tp] =>
                           param[fd] # NoParam /\ tp \in param[fd].tp
    BY DEF SubscribersLive
  <2> QED BY <1>c, <2>1, <2>2, CloseSubscribers
<1>u. ASSUME UNCHANGED <<state, param, topic2client>> PROVE SubscribersLive'
  BY <1>u DEF SubscribersLive, Live
<1>1. ASSUME NEW fd \in Fds, Callback(fd) PROVE SubscribersLive'
  <2>1. CASE OnConnection(fd)
    <3>1. \A tp \in Topics : fd \notin topic2client[tp]
      BY <2>1 DEF OnConnection, SubscribersLive
    <3> QED BY <2>1, <3>1 DEF OnConnection, SubscribersLive, Live, TypeOK
  <2>2. CASE OnEof(fd) \/ OnTimeout(fd) \/ BadData(fd) \/ CmdDc(fd) \/ CmdRefused(fd)
    BY <2>2, <1>c DEF OnEof, OnTimeout, BadData, CmdDc, CmdRefused, Drop
  <2>3. CASE PartialData(fd)
    BY <2>3, <1>u DEF PartialData
  <2>4. ASSUME NEW r \in ConnReqs, CmdCnRefused(fd, r) PROVE SubscribersLive'
    <3>1. CASE r.cd = NoId
      BY <2>4, <3>1, <1>0 DEF CmdCnRefused
    <3>2. CASE r.cd # NoId
      <4>1. ParamOf(r) \in Param \cup {NoParam} /\ ParamOf(r) # NoParam
            /\ (r.valid => ParamOf(r).tp = r.tp)
        BY <3>2, ParamOfType DEF NoEmptyTopic
      <4>2. Subscribe(fd, r) \in [Topics -> SUBSET Fds]
        BY SubscribeType
      <4>3. param[fd] = NoParam
        BY <2>4 DEF ParamAfterConnect, CmdCnRefused, Idle, Busy
      <4>4. \A tp \in Topics : fd \notin topic2client[tp]
        BY <4>3 DEF SubscribersLive
      <4>5. \A tp \in Topics : fd \in Subscribe(fd, r)[tp] =>
                               tp \in ParamOf(r).tp
        BY <4>1, <4>4 DEF Subscribe
      <4>6. \A tp \in Topics : Subscribe(fd, r)[tp] \subseteq topic2client[tp] \cup {fd}
        BY DEF Subscribe
      <4> QED BY <2>4, <3>2, <4>1, <4>2, <4>5, <4>6, CloseSubscribers
              DEF CmdCnRefused
    <3> QED BY <3>1, <3>2
  <2>5. ASSUME NEW r \in ConnReqs, NEW rest \in BOOLEAN, CmdCn(fd, r, rest)
        PROVE  SubscribersLive'
    <3>1. r.cd # NoId /\ r.valid /\ ~r.gap
      BY <2>5, ConnReqsAssumption DEF CmdCn, Admissible
    <3>2. ParamOf(r) # NoParam /\ ParamOf(r).tp = r.tp
      BY <3>1, ParamOfType
    <3>3. param[fd] = NoParam
      BY <2>5 DEF ParamAfterConnect, CmdCn, Idle, Busy
    <3>4. \A tp \in Topics : fd \notin topic2client[tp]
      BY <3>3 DEF SubscribersLive
    <3> SUFFICES ASSUME NEW tp \in Topics, NEW g \in topic2client'[tp]
                 PROVE  /\ state'[g] # "none"
                        /\ param'[g] # NoParam
                        /\ tp \in param'[g].tp
      BY DEF SubscribersLive, Live
    <3>5. CASE g = fd
      BY <2>5, <3>2, <3>4, <3>5 DEF CmdCn, Subscribe, TypeOK
    <3>6. CASE g # fd
      BY <2>5, <3>6 DEF CmdCn, Subscribe, TypeOK, SubscribersLive, Live
    <3> QED BY <3>5, <3>6
  <2>6. ASSUME NEW tp \in Topics, NEW rest \in BOOLEAN, CmdPb(fd, tp, rest)
        PROVE  SubscribersLive'
    BY <2>6, <1>u DEF CmdPb, conns
  <2>7. ASSUME NEW rest \in BOOLEAN, CmdPi(fd, rest) PROVE SubscribersLive'
    BY <2>7, <1>u DEF CmdPi
  <2> QED BY <1>1, <2>1, <2>2, <2>3, <2>4, <2>5, <2>6, <2>7 DEF Callback
<1>2. ASSUME NEW fd \in Fds, PublishTo(fd) PROVE SubscribersLive'
  BY <1>2, <1>0, <1>c, <1>u DEF PublishTo, conns
<1>3. CASE PublishEnd
  BY <1>3, <1>u DEF PublishEnd, conns
<1>4. CASE Return
  <2>0. cont.fd \in Fds
    BY <1>4, NoContAssumption DEF Return, TypeOK, Cont
  <2>1. CASE CnReturn(cont.fd)
    <3>1. CASE /\ state' = [state EXCEPT ![cont.fd] = "auth"]
               /\ UNCHANGED <<param, topic2client>>
      BY <2>0, <3>1 DEF SubscribersLive, Live, TypeOK
    <3> QED BY <2>0, <2>1, <3>1, <1>c DEF CnReturn
  <2>2. CASE PbReturn(cont.fd)
    BY <2>2, <1>u DEF PbReturn
  <2>3. CASE SelfClosedReturn(cont.fd)
    BY <2>3, <1>0, <1>u DEF SelfClosedReturn, conns
  <2> QED BY <1>4, <2>1, <2>2, <2>3 DEF Return
<1>5. CASE Tick \/ Restart
  BY <1>5, <1>u DEF Tick, Restart, conns
<1>6. CASE UNCHANGED vars
  BY <1>6, <1>u DEF vars
<1> QED BY <1>1, <1>2, <1>3, <1>4, <1>5, <1>6 DEF Next, Inside

(* The assertion of do_publish can never fail, and a descriptor inherits   *)
(* no topic, as long as no client sends an empty topic.                    *)
THEOREM SubscribersAreLive ==
    ASSUME NoEmptyTopic PROVE Spec => []SubscribersLive
<1>1. Init => SubscribersLive
  BY DEF Init, InitBroker, SubscribersLive
<1>2. IInv /\ SubscribersLive /\ [Next]_vars => SubscribersLive'
  BY NextSubscribers
<1> QED BY <1>1, <1>2, Invariance, PTL DEF Spec

-----------------------------------------------------------------------------
(* The handler that waits for do_publish still has its connection. *)
WaitingLive == cont # NoCont => Live(cont.fd)

(* No callback ends the broker when every client sends an id and no empty  *)
(* topic and no write fails: no assertion fails, no nil handle is used.    *)
THEOREM BrokerStaysUp ==
    ASSUME NoEmptyTopic, \A r \in ConnReqs : r.cd # NoId, WriteFails = FALSE
    PROVE  Spec => []BrokerUp
<1> DEFINE UInv == up /\ WaitingLive
<1>1. Init => UInv
  BY DEF Init, InitBroker, WaitingLive
<1>2. IInv /\ SubscribersLive /\ UInv /\ [Next]_vars => UInv'
  <2> SUFFICES ASSUME IInv, SubscribersLive, UInv, [Next]_vars PROVE UInv'
    OBVIOUS
  <2> USE DEF IInv
  <2>u. ASSUME UNCHANGED <<up, state, cont>> PROVE UInv'
    BY <2>u DEF WaitingLive, Live
  <2>1. ASSUME NEW fd \in Fds, Callback(fd) PROVE UInv'
    <3>0. Idle => cont = NoCont
      BY DEF Idle, Busy
    <3>1. CASE OnConnection(fd)
      BY <3>0, <3>1 DEF OnConnection, WaitingLive, calls
    <3>2. CASE OnEof(fd) \/ OnTimeout(fd) \/ BadData(fd) \/ CmdDc(fd) \/ CmdRefused(fd)
      BY <3>0, <3>2 DEF OnEof, OnTimeout, BadData, CmdDc, CmdRefused, Drop, WaitingLive
    <3>3. CASE PartialData(fd)
      BY <3>3, <2>u DEF PartialData, calls
    <3>4. ASSUME NEW r \in ConnReqs, CmdCnRefused(fd, r) PROVE UInv'
      BY <3>0, <3>4 DEF CmdCnRefused, WaitingLive
    <3>5. ASSUME NEW r \in ConnReqs, NEW rest \in BOOLEAN, CmdCn(fd, r, rest)
          PROVE  UInv'
      BY <3>5 DEF CmdCn, WaitingLive, Live
    <3>6. ASSUME NEW tp \in Topics, NEW rest \in BOOLEAN, CmdPb(fd, tp, rest)
          PROVE  UInv'
      BY <3>6 DEF CmdPb, WaitingLive, Live, conns
    <3>7. ASSUME NEW rest \in BOOLEAN, CmdPi(fd, rest) PROVE UInv'
      BY <3>7, <2>u DEF CmdPi, calls
    <3> QED BY <2>1, <3>1, <3>2, <3>3, <3>4, <3>5, <3>6, <3>7 DEF Callback
  <2>2. ASSUME NEW fd \in Fds, PublishTo(fd) PROVE UInv'
    <3>1. Live(fd)
      <4>1. stack[1] \in Frame
        BY <2>2 DEF PublishTo, TypeOK
      <4> QED BY <2>2, <4>1 DEF PublishTo, Unvisited, SubscribersLive, Frame
    <3> QED BY <2>2, <3>1, <2>u DEF PublishTo, conns
  <2>3. CASE PublishEnd
    BY <2>3, <2>u DEF PublishEnd, conns
  <2>4. CASE Return
    BY <2>4 DEF Return, CnReturn, PbReturn, SelfClosedReturn, WaitingLive
  <2>5. CASE Tick
    BY <2>5, <2>u DEF Tick, calls
  <2>6. CASE Restart \/ UNCHANGED vars
    BY <2>6, <2>u DEF vars, Restart, UInv
  <2> QED BY <2>1, <2>2, <2>3, <2>4, <2>5, <2>6 DEF Next, Inside
<1>3. UInv => BrokerUp
  BY DEF BrokerUp
<1> QED BY <1>1, <1>2, <1>3, Invariance, SubscribersAreLive, PTL DEF Spec

-----------------------------------------------------------------------------
(* The broker implements PubSub.                                           *)

(* What the call stack stands for in PubSub. *)
Cas == CastsOf(stack, param)

Params == [Fds -> Param \cup {NoParam}]

(* What has been subscribed to is in the topic map tmap. *)
Agrees(par, tmap) ==
    \A fd \in Fds : par[fd] # NoParam => \A tp \in par[fd].tp : fd \in tmap[tp]

(* A frame in front of others. *)
LEMMA CastsCons ==
    ASSUME NEW f \in Frame, NEW st \in Seq(Frame), NEW par
    PROVE  CastsOf(<<f>> \o st, par) = <<CastOf(f, par)>> \o CastsOf(st, par)
<1>1. Len(<<f>> \o st) = 1 + Len(st) /\ Len(st) \in Nat
  OBVIOUS
<1>2. (<<f>> \o st)[1] = f
  OBVIOUS
<1>3. \A i \in 2..(1 + Len(st)) : (<<f>> \o st)[i] = st[i - 1]
  OBVIOUS
<1>4. CastsOf(st, par) \in Seq({CastOf(st[i], par) : i \in 1..Len(st)})
      /\ Len(CastsOf(st, par)) = Len(st)
  BY <1>1 DEF CastsOf
<1>5. \A i \in 1..Len(st) : CastsOf(st, par)[i] = CastOf(st[i], par)
  BY DEF CastsOf
<1> DEFINE T == {CastOf(st[i], par) : i \in 1..Len(st)} \cup {CastOf(f, par)}
           R == <<CastOf(f, par)>> \o CastsOf(st, par)
           Q == CastsOf(<<f>> \o st, par)
<1>6. CastsOf(st, par) \in Seq(T) /\ <<CastOf(f, par)>> \in Seq(T)
  BY <1>4
<1>7. R \in Seq(T) /\ Len(R) = 1 + Len(st)
  BY <1>4, <1>6, ConcatProperties
<1>8. R[1] = CastOf(f, par) /\ \A i \in 2..(1 + Len(st)) : R[i] = CastOf(st[i - 1], par)
  BY <1>1, <1>4, <1>5, <1>6
<1>9. Q = [i \in 1..(1 + Len(st)) |-> CastOf((<<f>> \o st)[i], par)]
  BY <1>1 DEF CastsOf
<1>10. \A i \in 1..(1 + Len(st)) : Q[i] = R[i]
  <2> SUFFICES ASSUME NEW i \in 1..(1 + Len(st)) PROVE Q[i] = R[i]
    OBVIOUS
  <2>1. Q[i] = CastOf((<<f>> \o st)[i], par)
    BY <1>9
  <2> HIDE DEF Q, R
  <2>2. CASE i = 1
    BY <1>2, <1>8, <2>1, <2>2
  <2>3. CASE i # 1
    <3>1. i \in 2..(1 + Len(st))
      BY <1>1, <2>3
    <3> QED BY <1>3, <1>8, <2>1, <3>1
  <2> QED BY <2>2, <2>3
<1>11. R = [i \in 1..(1 + Len(st)) |-> R[i]]
  BY <1>7
<1> QED BY <1>9, <1>10, <1>11

(* The innermost frame and those behind it. *)
LEMMA CastsHead ==
    ASSUME NEW st \in Seq(Frame), st # <<>>, NEW par
    PROVE  /\ CastsOf(st, par) # <<>>
           /\ CastsOf(st, par)[1] = CastOf(st[1], par)
           /\ Tail(CastsOf(st, par)) = CastsOf(Tail(st), par)
<1>1. st[1] \in Frame /\ Tail(st) \in Seq(Frame) /\ st = <<st[1]>> \o Tail(st)
  OBVIOUS
<1>2. CastsOf(st, par) = <<CastOf(st[1], par)>> \o CastsOf(Tail(st), par)
  BY <1>1, CastsCons
<1> DEFINE T == {CastOf(Tail(st)[i], par) : i \in 1..Len(Tail(st))} \cup {CastOf(st[1], par)}
<1>3. CastsOf(Tail(st), par) \in Seq(T)
  <2>1. Len(Tail(st)) \in Nat
    BY <1>1
  <2>2. \A i \in 1..Len(Tail(st)) : CastOf(Tail(st)[i], par) \in T
    OBVIOUS
  <2> HIDE DEF T
  <2> QED BY <2>1, <2>2 DEF CastsOf
<1>4. CastOf(st[1], par) \in T
  OBVIOUS
<1> HIDE DEF T
<1> QED BY <1>2, <1>3, <1>4

(* The end of a session takes it off everything that is being delivered. *)
LEMMA CastsDrop ==
    ASSUME NEW st \in Seq(Frame), NEW par \in Params, NEW fd \in Fds
    PROVE  CastsOf(st, [par EXCEPT ![fd] = NoParam])
             = [i \in DOMAIN CastsOf(st, par) |-> Service!Done(fd, CastsOf(st, par)[i])]
<1> DEFINE new == [par EXCEPT ![fd] = NoParam]
<1>1. ASSUME NEW f \in Frame
      PROVE  CastOf(f, new) = Service!Done(fd, CastOf(f, par))
  <2>1. {g \in f.todo : new[g] # NoParam /\ f.tp \in new[g].tp}
          = {g \in f.todo : par[g] # NoParam /\ f.tp \in par[g].tp} \ {fd}
    BY <1>1 DEF Frame, Params
  <2> QED BY <2>1 DEF CastOf, Service!Done
<1>2. DOMAIN CastsOf(st, par) = 1..Len(st)
  BY DEF CastsOf
<1>3. \A i \in 1..Len(st) : st[i] \in Frame
  OBVIOUS
<1>4. \A i \in 1..Len(st) : CastOf(st[i], new) = Service!Done(fd, CastsOf(st, par)[i])
  BY <1>1, <1>3 DEF CastsOf
<1> QED BY <1>2, <1>4 DEF CastsOf

(* Who is not in session is owed nothing. *)
LEMMA DoneNobody ==
    ASSUME NEW f \in Frame, NEW par \in Params, NEW fd \in Fds, NEW S,
           S = f.todo \/ S = f.todo \ {fd},
           par[fd] = NoParam \/ f.tp \notin par[fd].tp
    PROVE  CastOf([f EXCEPT !.todo = S], par) = CastOf(f, par)
<1>1. {g \in S : par[g] # NoParam /\ f.tp \in par[g].tp}
        = {g \in f.todo : par[g] # NoParam /\ f.tp \in par[g].tp}
  OBVIOUS
<1> QED BY <1>1 DEF CastOf, Frame

(* A publish is due to all who have the topic. *)
LEMMA CastsPush ==
    ASSUME NEW tp \in Topics \cup {NoTopic}, NEW tmap \in [Topics -> SUBSET Fds],
           NEW st \in Seq(Frame), NEW par \in Params, Agrees(par, tmap)
    PROVE  CastsOf(PushPublish(tp, tmap, st), par)
             = Service!Start(tp, par, CastsOf(st, par))
<1>1. CASE tp = NoTopic
  BY <1>1 DEF PushPublish, Service!Start
<1>2. CASE tp # NoTopic
  <2> DEFINE f == [tp |-> tp, todo |-> tmap[tp]]
  <2>1. f \in Frame
    BY <1>2 DEF Frame
  <2>2. {g \in tmap[tp] : par[g] # NoParam /\ tp \in par[g].tp}
          = Service!Members(tp, par)
    BY <1>2 DEF Service!Members, Agrees
  <2>3. CastOf(f, par) = [tp |-> tp, todo |-> Service!Members(tp, par)]
    BY <2>2 DEF CastOf
  <2>4. PushPublish(tp, tmap, st) = <<f>> \o st
    BY <1>2 DEF PushPublish
  <2> QED BY <1>2, <2>1, <2>3, <2>4, CastsCons DEF Service!Start
<1> QED BY <1>1, <1>2

(* Visiting somebody who has no session, or not for this topic. *)
LEMMA VisitedSame ==
    ASSUME stack \in Seq(Frame), stack # <<>>, NEW par \in Params, NEW fd \in Fds,
           par[fd] = NoParam \/ stack[1].tp \notin par[fd].tp
    PROVE  CastsOf(Visited(fd), par) = CastsOf(stack, par)
<1> DEFINE f == stack[1]
           g == [f EXCEPT !.todo = f.todo \ {fd}]
<1>1. f \in Frame /\ Tail(stack) \in Seq(Frame) /\ stack = <<f>> \o Tail(stack)
  OBVIOUS
<1>2. g \in Frame
  BY <1>1 DEF Frame
<1>3. CastOf(g, par) = CastOf(f, par)
  BY <1>1, DoneNobody
<1>4. Visited(fd) = <<g>> \o Tail(stack)
  BY <1>1 DEF Visited, Frame
<1> HIDE DEF f, g
<1>5. CastsOf(<<g>> \o Tail(stack), par) = <<CastOf(g, par)>> \o CastsOf(Tail(stack), par)
  BY <1>1, <1>2, CastsCons
<1>6. CastsOf(<<f>> \o Tail(stack), par) = <<CastOf(f, par)>> \o CastsOf(Tail(stack), par)
  BY <1>1, CastsCons
<1> QED BY <1>1, <1>3, <1>4, <1>5, <1>6

(* Visiting a session that has the topic. *)
LEMMA VisitedDone ==
    ASSUME stack \in Seq(Frame), stack # <<>>, NEW par \in Params, NEW fd \in Fds
    PROVE  CastsOf(Visited(fd), par)
             = <<Service!Done(fd, CastsOf(stack, par)[1])>> \o Tail(CastsOf(stack, par))
<1> DEFINE f == stack[1]
           g == [f EXCEPT !.todo = f.todo \ {fd}]
<1>1. f \in Frame /\ Tail(stack) \in Seq(Frame)
  OBVIOUS
<1>2. g \in Frame
  BY <1>1 DEF Frame
<1>3. CastOf(g, par) = Service!Done(fd, CastOf(f, par))
  <2>1. {h \in f.todo \ {fd} : par[h] # NoParam /\ f.tp \in par[h].tp}
          = {h \in f.todo : par[h] # NoParam /\ f.tp \in par[h].tp} \ {fd}
    OBVIOUS
  <2>2. g.tp = f.tp /\ g.todo = f.todo \ {fd}
    BY <1>1 DEF Frame
  <2> QED BY <2>1, <2>2 DEF CastOf, Service!Done
<1>4. Visited(fd) = <<g>> \o Tail(stack)
  BY <1>1 DEF Visited, Frame
<1>5. /\ CastsOf(stack, par)[1] = CastOf(f, par)
      /\ Tail(CastsOf(stack, par)) = CastsOf(Tail(stack), par)
  BY CastsHead
<1> HIDE DEF f, g
<1>6. CastsOf(<<g>> \o Tail(stack), par) = <<CastOf(g, par)>> \o CastsOf(Tail(stack), par)
  BY <1>1, <1>2, CastsCons
<1> QED BY <1>3, <1>4, <1>5, <1>6

(* The operations of PubSub in terms of param and the call stack. *)
Serves == Service!Next \/ UNCHANGED Service!pvars

LEMMA ServiceActions ==
    /\ UNCHANGED <<param, Cas>> => Serves
    /\ \A fd \in Fds, s \in Param, tp \in Topics \cup {NoTopic} :
          Cas = <<>> /\ param[fd] = NoParam /\ param' = [param EXCEPT ![fd] = s]
             /\ Cas' = Service!Start(tp, param', <<>>) => Serves
    /\ \A tp \in Topics :
          Cas = <<>> /\ Cas' = Service!Start(tp, param, <<>>) /\ UNCHANGED param => Serves
    /\ \A fd \in Fds :
          Cas # <<>> /\ fd \in Cas[1].todo /\ UNCHANGED param
             /\ Cas' = <<Service!Done(fd, Cas[1])>> \o Tail(Cas) => Serves
    /\ Cas # <<>> /\ Cas[1].todo = {} /\ Cas' = Tail(Cas) /\ UNCHANGED param => Serves
    /\ \A fd \in Fds :
          param[fd] # NoParam /\ param' = [param EXCEPT ![fd] = NoParam]
             /\ Cas' = Service!Start(param[fd].wt, param',
                                     [i \in DOMAIN Cas |-> Service!Done(fd, Cas[i])]) => Serves
    /\ param' = [fd \in Fds |-> NoParam] /\ Cas' = <<>> => Serves
<1>1. UNCHANGED <<param, Cas>> => Serves
  BY DEF Serves, Cas, Service!pvars
<1>2. \A fd \in Fds, s \in Param, tp \in Topics \cup {NoTopic} :
          Cas = <<>> /\ param[fd] = NoParam /\ param' = [param EXCEPT ![fd] = s]
             /\ Cas' = Service!Start(tp, param', <<>>) => Serves
  BY DEF Serves, Cas, Service!Next, Service!Join, Service!Session, Param
<1>3. \A tp \in Topics :
          Cas = <<>> /\ Cas' = Service!Start(tp, param, <<>>) /\ UNCHANGED param => Serves
  BY DEF Serves, Cas, Service!Next, Service!Publish
<1>4. \A fd \in Fds :
          Cas # <<>> /\ fd \in Cas[1].todo /\ UNCHANGED param
             /\ Cas' = <<Service!Done(fd, Cas[1])>> \o Tail(Cas) => Serves
  BY DEF Serves, Cas, Service!Next, Service!Deliver
<1>5. Cas # <<>> /\ Cas[1].todo = {} /\ Cas' = Tail(Cas) /\ UNCHANGED param => Serves
  BY DEF Serves, Cas, Service!Next, Service!Finish
<1>6. \A fd \in Fds :
          param[fd] # NoParam /\ param' = [param EXCEPT ![fd] = NoParam]
             /\ Cas' = Service!Start(param[fd].wt, param',
                                     [i \in DOMAIN Cas |-> Service!Done(fd, Cas[i])]) => Serves
  BY DEF Serves, Cas, Service!Next, Service!Leave
<1>7. param' = [fd \in Fds |-> NoParam] /\ Cas' = <<>> => Serves
  BY DEF Serves, Cas, Service!Next, Service!Fail
<1> QED BY <1>1, <1>2, <1>3, <1>4, <1>5, <1>6, <1>7

LEMMA CasPrimed == Cas' = CastsOf(stack', param')
BY DEF Cas, CastsOf, CastOf

(* close_client ends a session, or a connection that has none. *)
LEMMA CloseServes ==
    ASSUME IInv, IInv', NEW fd \in Fds, NEW st,
           st = stack \/ (stack # <<>> /\ st = Visited(fd)),
           CloseClient(fd, param[fd], topic2client, st)
    PROVE  Serves
<1>0. /\ stack \in Seq(Frame) /\ param \in Params /\ param' \in Params
      /\ param' = [param EXCEPT ![fd] = NoParam]
      /\ topic2client \in [Topics -> SUBSET Fds]
      /\ topic2client' \in [Topics -> SUBSET Fds]
  BY DEF IInv, TypeOK, Params, CloseClient
<1>1. st \in Seq(Frame)
  BY <1>0, VisitedType DEF IInv
<1>2. CastsOf(st, param') = CastsOf(stack, param')
  BY <1>0, VisitedSame DEF Params
<1>3. CASE param[fd] = NoParam
  <2>1. stack' = st /\ param' = param
    BY <1>0, <1>3 DEF CloseClient, Params
  <2>2. Cas' = CastsOf(stack', param')
    BY CasPrimed
  <2>3. Cas' = Cas
    BY <1>2, <2>1, <2>2 DEF Cas
  <2> QED BY <2>1, <2>3, ServiceActions
<1>4. CASE param[fd] # NoParam
  <2>1. param[fd] \in Param /\ param[fd].wt \in Topics \cup {NoTopic}
    BY <1>0, <1>4 DEF Params, Param
  <2>2. stack' = PushPublish(param[fd].wt, topic2client', st)
    BY <1>4 DEF CloseClient
  <2>3. Agrees(param', topic2client')
    BY DEF IInv, NamedSubscribed, Agrees
  <2>4. CastsOf(stack', param')
          = Service!Start(param[fd].wt, param', CastsOf(st, param'))
    BY <1>0, <1>1, <2>1, <2>2, <2>3, CastsPush
  <2>5. CastsOf(stack, param') = [i \in DOMAIN Cas |-> Service!Done(fd, Cas[i])]
    BY <1>0, CastsDrop DEF Cas
  <2>6. Cas' = CastsOf(stack', param')
    BY CasPrimed
  <2> QED BY <1>0, <1>2, <1>4, <2>4, <2>5, <2>6, ServiceActions
<1> QED BY <1>3, <1>4

(* Nothing is being delivered when the call stack is empty. *)
LEMMA CastsEmpty == \A par : CastsOf(<<>>, par) = <<>>
<1>1. ASSUME NEW par PROVE CastsOf(<<>>, par) = <<>>
  BY DEF CastsOf
<1> QED BY <1>1

(* A publish between callbacks, by whoever it is. *)
LEMMA PublishServes ==
    ASSUME IInv, IInv', stack = <<>>, UNCHANGED param,
           NEW tp \in Topics \cup {NoTopic},
           stack' = PushPublish(tp, topic2client', stack)
    PROVE  Serves
<1>0. /\ stack \in Seq(Frame) /\ param' \in Params
      /\ topic2client' \in [Topics -> SUBSET Fds]
  BY DEF IInv, TypeOK, Params
<1>1. Agrees(param', topic2client')
  BY DEF IInv, NamedSubscribed, Agrees
<1>2. CastsOf(stack', param') = Service!Start(tp, param', CastsOf(stack, param'))
  BY <1>0, <1>1, CastsPush
<1>3. Cas = <<>> /\ CastsOf(stack, param') = <<>>
  BY CastsEmpty DEF Cas
<1>4. Cas' = CastsOf(stack', param')
  BY CasPrimed
<1>5. Cas' = Service!Start(tp, param, <<>>)
  BY <1>2, <1>3, <1>4
<1>6. CASE tp = NoTopic
  <2>1. Cas' = <<>>
    BY <1>5, <1>6 DEF Service!Start
  <2> QED BY <1>3, <2>1, ServiceActions
<1>7. CASE tp # NoTopic
  BY <1>3, <1>5, <1>7, ServiceActions
<1> QED BY <1>6, <1>7

(* A crash is a failure of the service; the rest are its operations. *)
LEMMA ServiceStep == IInv /\ IInv' /\ [Next]_vars => [Service!Next]_Service!pvars
<1> SUFFICES ASSUME IInv, IInv', [Next]_vars PROVE Serves
  BY DEF Serves
<1>0. /\ stack \in Seq(Frame) /\ param \in Params
      /\ topic2client \in [Topics -> SUBSET Fds]
  BY DEF IInv, TypeOK, Params
<1>p. Cas' = CastsOf(stack', param')
  BY CasPrimed
<1>u. ASSUME UNCHANGED <<param, stack>> PROVE Serves
  <2>1. Cas' = Cas
    BY <1>u, <1>p DEF Cas
  <2> QED BY <1>u, <2>1, ServiceActions
<1>c. ASSUME Crash PROVE Serves
  <2>1. Cas' = <<>> /\ param' = [fd \in Fds |-> NoParam]
    BY <1>c, <1>p, CastsEmpty DEF Crash
  <2> QED BY <2>1, ServiceActions
<1>i. Idle => stack = <<>> /\ cont = NoCont
  BY DEF Idle, Busy
<1>1. ASSUME NEW fd \in Fds, Callback(fd) PROVE Serves
  <2>1. CASE OnConnection(fd)
    <3>1. param[fd] = NoParam
      BY <2>1, <1>i DEF OnConnection, IInv, ParamAfterConnect, Live
    <3>2. UNCHANGED <<param, stack>>
      BY <1>0, <2>1, <3>1 DEF OnConnection, Params, calls
    <3> QED BY <3>2, <1>u
  <2>2. CASE OnEof(fd) \/ OnTimeout(fd) \/ BadData(fd) \/ CmdDc(fd) \/ CmdRefused(fd)
    BY <2>2, CloseServes DEF OnEof, OnTimeout, BadData, CmdDc, CmdRefused, Drop
  <2>3. CASE PartialData(fd)
    BY <2>3, <1>u DEF PartialData, calls
  <2>4. ASSUME NEW r \in ConnReqs, CmdCnRefused(fd, r) PROVE Serves
    <3>1. CASE r.cd = NoId
      BY <2>4, <3>1, <1>c DEF CmdCnRefused
    <3>2. CASE r.cd # NoId
      <4>1. CloseClient(fd, ParamOf(r), Subscribe(fd, r), stack) /\ stack = <<>>
        BY <2>4, <3>2, <1>i DEF CmdCnRefused
      <4>2. ParamOf(r) \in Param /\ ParamOf(r) # NoParam
        BY <3>2, ParamOfType
      <4>3. ParamOf(r).wt \in Topics \cup {NoTopic}
        BY <4>2 DEF Param
      <4>4. param[fd] = NoParam
        BY <2>4, <1>i DEF CmdCnRefused, IInv, ParamAfterConnect
      <4>5. UNCHANGED param
        BY <1>0, <4>1, <4>4 DEF CloseClient, Params
      <4>6. stack' = PushPublish(ParamOf(r).wt, topic2client', stack)
        BY <4>1, <4>2 DEF CloseClient
      <4> QED BY <4>1, <4>3, <4>5, <4>6, PublishServes
    <3> QED BY <3>1, <3>2
  <2>5. ASSUME NEW r \in ConnReqs, NEW rest \in BOOLEAN, CmdCn(fd, r, rest)
        PROVE  Serves
    <3>1. r.cd # NoId /\ r \in ConnReq
      BY <2>5, ConnReqsAssumption DEF CmdCn, Admissible
    <3>2. ParamOf(r) \in Param /\ r.ct \in Topics \cup {NoTopic}
      BY <3>1, ParamOfType DEF ConnReq
    <3>3. param[fd] = NoParam /\ stack = <<>>
      BY <2>5, <1>i DEF CmdCn, IInv, ParamAfterConnect
    <3>4. /\ param' = [param EXCEPT ![fd] = ParamOf(r)]
          /\ stack' = PushPublish(r.ct, topic2client', stack)
      BY <2>5 DEF CmdCn
    <3>5. /\ param' \in Params /\ topic2client' \in [Topics -> SUBSET Fds]
          /\ Agrees(param', topic2client')
      BY DEF IInv, TypeOK, Params, NamedSubscribed, Agrees
    <3>6. CastsOf(stack', param') = Service!Start(r.ct, param', CastsOf(stack, param'))
      BY <1>0, <3>2, <3>4, <3>5, CastsPush
    <3>7. Cas = <<>> /\ CastsOf(stack, param') = <<>>
      BY <3>3, CastsEmpty DEF Cas
    <3> QED BY <1>p, <3>2, <3>3, <3>4, <3>6, <3>7, ServiceActions
  <2>6. ASSUME NEW tp \in Topics, NEW rest \in BOOLEAN, CmdPb(fd, tp, rest)
        PROVE  Serves
    <3>1. /\ stack = <<>> /\ UNCHANGED param
          /\ stack' = PushPublish(tp, topic2client', stack)
      BY <2>6, <1>i DEF CmdPb, conns
    <3> QED BY <3>1, PublishServes
  <2>7. ASSUME NEW rest \in BOOLEAN, CmdPi(fd, rest) PROVE Serves
    BY <2>7, <1>u DEF CmdPi, calls
  <2> QED BY <1>1, <2>1, <2>2, <2>3, <2>4, <2>5, <2>6, <2>7 DEF Callback
<1>2. ASSUME NEW fd \in Fds, PublishTo(fd) PROVE Serves
  <2>1. stack # <<>> /\ fd \in stack[1].todo
    BY <1>2 DEF PublishTo, Unvisited
  <2>2. CASE stack' = Visited(fd) /\ UNCHANGED param
    <3>1. CASE param[fd] # NoParam /\ stack[1].tp \in param[fd].tp
      <4>1. Cas # <<>> /\ Cas[1] = CastOf(stack[1], param)
        BY <1>0, <2>1, CastsHead DEF Cas
      <4>2. fd \in Cas[1].todo
        BY <2>1, <3>1, <4>1 DEF CastOf
      <4>3. Cas' = <<Service!Done(fd, Cas[1])>> \o Tail(Cas)
        BY <1>0, <1>p, <2>1, <2>2, VisitedDone DEF Cas
      <4> QED BY <2>2, <4>1, <4>2, <4>3, ServiceActions
    <3>2. CASE param[fd] = NoParam \/ stack[1].tp \notin param[fd].tp
      <4>1. Cas' = Cas
        BY <1>0, <1>p, <2>1, <2>2, <3>2, VisitedSame DEF Cas
      <4> QED BY <2>2, <4>1, ServiceActions
    <3> QED BY <3>1, <3>2
  <2>3. CASE CloseClient(fd, param[fd], topic2client, Visited(fd))
    BY <2>1, <2>3, CloseServes
  <2> QED BY <1>2, <1>c, <2>2, <2>3 DEF PublishTo, conns
<1>3. CASE PublishEnd
  <2>1. stack # <<>> /\ stack' = Tail(stack) /\ UNCHANGED param /\ Unvisited = {}
    BY <1>3 DEF PublishEnd, conns
  <2>2. Cas # <<>> /\ Cas[1] = CastOf(stack[1], param) /\ Tail(Cas) = Cas'
    BY <1>0, <1>p, <2>1, CastsHead DEF Cas
  <2>3. stack[1] \in Frame
    BY <1>0, <2>1
  <2>4. Cas[1].todo = {}
    <3> SUFFICES ASSUME NEW g \in stack[1].todo,
                        param[g] # NoParam, stack[1].tp \in param[g].tp
                 PROVE  FALSE
      BY <2>2 DEF CastOf
    <3>1. g \in topic2client[stack[1].tp]
      BY <2>3 DEF IInv, NamedSubscribed, Frame
    <3> QED BY <2>1, <3>1 DEF Unvisited
  <2> QED BY <2>1, <2>2, <2>4, ServiceActions
<1>4. CASE Return
  <2>0. cont.fd \in Fds
    BY <1>4, NoContAssumption DEF Return, IInv, TypeOK, Cont
  <2>1. CASE CnReturn(cont.fd)
    BY <2>0, <2>1, <1>u, CloseServes DEF CnReturn
  <2>2. CASE PbReturn(cont.fd)
    BY <2>2, <1>u DEF PbReturn
  <2>3. CASE SelfClosedReturn(cont.fd)
    BY <2>3, <1>c, <1>u DEF SelfClosedReturn, conns
  <2> QED BY <1>4, <2>1, <2>2, <2>3 DEF Return
<1>5. CASE Tick \/ Restart \/ UNCHANGED vars
  BY <1>5, <1>u DEF Tick, Restart, vars, conns, calls
<1> QED BY <1>1, <1>2, <1>3, <1>4, <1>5 DEF Next, Inside

(* The broker implements PubSub, for any clients, write failures and       *)
(* crashes: sessions come and go whole, a publish reaches each session it  *)
(* finds unless that ends first, and every will is published.              *)
THEOREM ServiceImplemented == Spec => ImplementsPubSub
<1>1. Init => Service!Init
  <2>1. CastsOf(<<>>, param) = <<>>
    BY CastsEmpty
  <2> QED BY <2>1 DEF Init, InitBroker, Service!Init
<1>2. IInv /\ IInv' /\ [Next]_vars => [Service!Next]_Service!pvars
  BY ServiceStep
<1> QED BY <1>1, <1>2, Invariance, PTL DEF Spec, ImplementsPubSub, Service!Spec

-----------------------------------------------------------------------------
(* Unique ids.  They fail (UniqueIds) only through a refused connect       *)
(* command that names an id in use: with another password, an older        *)
(* version or as a duplicate, it unregisters the owner (sands.lua:105).    *)
RefusesOwned ==
    \E fd \in Fds, r \in ConnReqs :
        CmdCnRefused(fd, r) /\ r.cd # NoId /\ clientid2fd[r.cd] # NoFd

(* A connection in session is the registered one of its id. *)
Registered == \A fd \in Fds : param[fd] # NoParam => clientid2fd[param[fd].cd] = fd

LEMMA CloseRegistered ==
    ASSUME TypeOK, Registered, NEW fd \in Fds, NEW st, param[fd] # NoParam,
           CloseClient(fd, param[fd], topic2client, st)
    PROVE  Registered'
<1> SUFFICES ASSUME NEW g \in Fds, param'[g] # NoParam
             PROVE  clientid2fd'[param'[g].cd] = g
  BY DEF Registered
<1>1. g # fd /\ param'[g] = param[g]
  BY DEF CloseClient, TypeOK
<1>2. param[g] \in Param /\ param[fd] \in Param
  BY <1>1 DEF TypeOK
<1>3. clientid2fd[param[g].cd] = g /\ clientid2fd[param[fd].cd] = fd
  BY <1>1 DEF Registered
<1>4. clientid2fd' = [clientid2fd EXCEPT ![param[fd].cd] = NoFd]
  BY DEF CloseClient, Unregister
<1> QED BY <1>1, <1>2, <1>3, <1>4 DEF TypeOK, Param

LEMMA NextRegistered ==
    IInv /\ Registered /\ [Next]_vars /\ ~RefusesOwned => Registered'
<1> SUFFICES ASSUME IInv, Registered, [Next]_vars, ~RefusesOwned PROVE Registered'
  OBVIOUS
<1> USE DEF IInv
<1>u. ASSUME UNCHANGED <<param, clientid2fd>> PROVE Registered'
  BY <1>u DEF Registered
<1>0. ASSUME Crash PROVE Registered'
  BY <1>0 DEF Crash, Registered
<1>c. ASSUME NEW fd \in Fds, NEW st, CloseClient(fd, param[fd], topic2client, st)
      PROVE  Registered'
  <2>1. CASE param[fd] = NoParam
    BY <1>c, <2>1, <1>u DEF CloseClient, TypeOK
  <2> QED BY <1>c, <2>1, CloseRegistered
<1>i. ASSUME Idle, NEW fd \in Fds, state[fd] # "auth" PROVE param[fd] = NoParam
  BY <1>i DEF Idle, Busy, ParamAfterConnect
<1>1. ASSUME NEW fd \in Fds, Callback(fd) PROVE Registered'
  <2>1. CASE OnConnection(fd)
    BY <2>1, <1>i, <1>u DEF OnConnection, Live, TypeOK
  <2>2. CASE OnEof(fd) \/ OnTimeout(fd) \/ BadData(fd) \/ CmdDc(fd) \/ CmdRefused(fd)
    BY <2>2, <1>c DEF OnEof, OnTimeout, BadData, CmdDc, CmdRefused, Drop
  <2>3. CASE PartialData(fd)
    BY <2>3, <1>u DEF PartialData
  <2>4. ASSUME NEW r \in ConnReqs, CmdCnRefused(fd, r) PROVE Registered'
    <3>1. CASE r.cd = NoId
      BY <2>4, <3>1, <1>0 DEF CmdCnRefused
    <3>2. CASE r.cd # NoId
      <4>1. CloseClient(fd, ParamOf(r), Subscribe(fd, r), stack)
        BY <2>4, <3>2 DEF CmdCnRefused
      <4>2. ParamOf(r) # NoParam /\ ParamOf(r).cd = r.cd /\ r.cd \in Ids
        BY <3>2, ParamOfType DEF Param
      <4>3. clientid2fd[r.cd] = NoFd
        BY <2>4, <3>2 DEF RefusesOwned
      <4>4. param[fd] = NoParam
        BY <2>4, <1>i DEF CmdCnRefused
      <4>5. param' = param
        BY <4>1, <4>4 DEF CloseClient, TypeOK
      <4>6. clientid2fd' = [clientid2fd EXCEPT ![r.cd] = NoFd]
        BY <4>1, <4>2 DEF CloseClient, Unregister
      <4>7. clientid2fd' = clientid2fd
        BY <4>2, <4>3, <4>6 DEF TypeOK
      <4> QED BY <4>5, <4>7, <1>u
    <3> QED BY <3>1, <3>2
  <2>5. ASSUME NEW r \in ConnReqs, NEW rest \in BOOLEAN, CmdCn(fd, r, rest)
        PROVE  Registered'
    <3>1. r.cd # NoId /\ clientid2fd[r.cd] = NoFd
      BY <2>5, ConnReqsAssumption DEF CmdCn, Admissible
    <3>2. ParamOf(r) \in Param /\ ParamOf(r).cd = r.cd /\ r.cd \in Ids
      BY <3>1, ParamOfType DEF Param
    <3>3. /\ param' = [param EXCEPT ![fd] = ParamOf(r)]
          /\ clientid2fd' = [clientid2fd EXCEPT ![r.cd] = fd]
      BY <2>5 DEF CmdCn
    <3> SUFFICES ASSUME NEW g \in Fds, param'[g] # NoParam
                 PROVE  clientid2fd'[param'[g].cd] = g
      BY DEF Registered
    <3>4. CASE g = fd
      BY <3>2, <3>3, <3>4 DEF TypeOK
    <3>5. CASE g # fd
      <4>1. param'[g] = param[g] /\ param[g] \in Param
        BY <3>3, <3>5 DEF TypeOK
      <4>2. clientid2fd[param[g].cd] = g /\ param[g].cd \in Ids
        BY <4>1 DEF Registered, Param
      <4>3. param[g].cd # r.cd
        BY <3>1, <4>2, ConstantsAssumption
      <4> QED BY <3>2, <3>3, <4>1, <4>2, <4>3 DEF TypeOK
    <3> QED BY <3>4, <3>5
  <2>6. ASSUME NEW tp \in Topics, NEW rest \in BOOLEAN, CmdPb(fd, tp, rest)
        PROVE  Registered'
    BY <2>6, <1>u DEF CmdPb, conns
  <2>7. ASSUME NEW rest \in BOOLEAN, CmdPi(fd, rest) PROVE Registered'
    BY <2>7, <1>u DEF CmdPi
  <2> QED BY <1>1, <2>1, <2>2, <2>3, <2>4, <2>5, <2>6, <2>7 DEF Callback
<1>2. ASSUME NEW fd \in Fds, PublishTo(fd) PROVE Registered'
  BY <1>2, <1>0, <1>c, <1>u DEF PublishTo, conns
<1>3. CASE PublishEnd
  BY <1>3, <1>u DEF PublishEnd, conns
<1>4. CASE Return
  <2>0. cont.fd \in Fds
    BY <1>4, NoContAssumption DEF Return, TypeOK, Cont
  <2>1. CASE CnReturn(cont.fd)
    BY <2>0, <2>1, <1>c, <1>u DEF CnReturn
  <2>2. CASE PbReturn(cont.fd)
    BY <2>2, <1>u DEF PbReturn
  <2>3. CASE SelfClosedReturn(cont.fd)
    BY <2>3, <1>0, <1>u DEF SelfClosedReturn, conns
  <2> QED BY <1>4, <2>1, <2>2, <2>3 DEF Return
<1>5. CASE Tick \/ Restart \/ UNCHANGED vars
  BY <1>5, <1>u DEF Tick, Restart, vars, conns
<1> QED BY <1>1, <1>2, <1>3, <1>4, <1>5 DEF Next, Inside

(* No two authenticated connections have the same id as long as no connect *)
(* command that names an id in use is refused: the refusal is all that     *)
(* breaks UniqueIds, not the reuse of descriptors, wills or failing        *)
(* writes (sands.lua:105, 225-232).                                        *)
THEOREM UniqueUntilRefusal == Spec /\ [][~RefusesOwned]_vars => []UniqueIds
<1>1. Init => Registered
  BY DEF Init, InitBroker, Registered
<1>2. IInv /\ Registered /\ [Next]_vars /\ [~RefusesOwned]_vars => Registered'
  <2>1. UNCHANGED vars /\ Registered => Registered'
    BY DEF vars, Registered
  <2> QED BY <2>1, NextRegistered
<1>3. IInv /\ Registered => UniqueIds
  <2> SUFFICES ASSUME IInv, Registered, NEW f \in Fds, NEW g \in Fds,
                      state[f] = "auth", state[g] = "auth", f # g
               PROVE  param[f].cd # param[g].cd
    BY DEF UniqueIds
  <2>1. clientid2fd[param[f].cd] = f /\ clientid2fd[param[g].cd] = g
    BY DEF IInv, AuthNamed, Registered
  <2> QED BY <2>1
<1> QED BY <1>1, <1>2, <1>3, Invariance, PTL DEF Spec
=============================================================================
