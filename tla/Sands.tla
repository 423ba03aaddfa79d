------------------------------- MODULE Sands --------------------------------
(***************************************************************************)
(* The publish/subscribe broker of the sand package,                       *)
(* sand/root/ugw/apps/sands/sands.lua, with the process loop around it     *)
(* (sands/main.lua, script/sands.sh).                                      *)
(*                                                                         *)
(* The broker is one libuv loop: a callback runs to its end before the     *)
(* next one starts.  A callback that publishes may close connections       *)
(* whose write fails, and closing one publishes its will, so do_publish    *)
(* and close_client are mutually recursive.  The recursion is kept as an   *)
(* explicit call stack: `stack' holds one frame per do_publish in          *)
(* progress, `cont' the command handler that is waiting for it to return.  *)
(* While either is non-empty no other callback can start (Busy).           *)
(*                                                                         *)
(* A connection is its file descriptor, as in the code, and the kernel     *)
(* may hand a closed descriptor to the next connection.                    *)
(***************************************************************************)
EXTENDS Naturals, Sequences

CONSTANTS
    Fds,         \* file descriptors the kernel can hand out
    Ids,         \* client identifiers (field cd of the connect command)
    Topics,      \* topics
    NoFd, NoId, NoTopic, NoParam, NoCont,   \* absent values (nil)
    ConnReqs,    \* the connect commands that clients may send
    WriteFails,  \* whether uv.write may report an error
    NewTicks,    \* first timer: time to send the connect command (30 s)
    KpTicks      \* keepalive timer, restarted by commands (kp * 2.1 s)

(***************************************************************************)
(* A connect command.  valid: the parameter, version and password checks   *)
(* all pass.  tp: the topics in front of the first empty part of the       *)
(* topic list; gap: the list has an empty part.  wt, ct: the topics of the *)
(* will and of the connect announcement.                                   *)
(***************************************************************************)
ConnReq == [cd: Ids \cup {NoId}, valid: BOOLEAN, tp: SUBSET Topics,
            gap: BOOLEAN, wt: Topics \cup {NoTopic}, ct: Topics \cup {NoTopic}]

ASSUME ConstantsAssumption ==
    /\ NoFd \notin Fds /\ NoId \notin Ids /\ NoTopic \notin Topics
    /\ WriteFails \in BOOLEAN
    /\ NewTicks \in Nat /\ KpTicks \in Nat

ASSUME ConnReqsAssumption ==
    /\ ConnReqs \subseteq ConnReq
    /\ \A r \in ConnReqs : r.valid => r.cd # NoId /\ (r.gap \/ r.tp # {})

(* climap.param once the connect command has been read.  tp is the topic   *)
(* table; it is empty while the field still holds the unparsed string.     *)
Param == [cd: Ids, tp: SUBSET Topics, wt: Topics \cup {NoTopic}]

ASSUME NoParamAssumption == NoParam \notin Param

Frame == [tp: Topics, todo: SUBSET Fds]
Cont  == [op: {"cn", "pb"}, fd: Fds, rest: BOOLEAN]

ASSUME NoContAssumption == NoCont \notin Cont

VARIABLES
    up,            \* the broker process is running
    state,         \* clientmap[fd].state; "none": no entry in clientmap
    param,         \* clientmap[fd].param
    partial,       \* clientmap[fd].data holds an incomplete command
    timer,         \* time left on clientmap[fd].timer
    clientid2fd,   \* client id -> connection
    topic2client,  \* topic -> set of connections
    stack,         \* do_publish calls in progress, innermost first
    cont           \* command handler waiting for do_publish to return

conns == <<state, param, partial, timer>>
calls == <<stack, cont>>
vars == <<up, state, param, partial, timer, clientid2fd, topic2client,
          stack, cont>>

Live(fd) == state[fd] # "none"
Busy == stack # <<>> \/ cont # NoCont

(* Every callback of the event loop starts from here. *)
Idle == up /\ ~Busy

InitBroker(running) ==
    /\ up = running
    /\ state = [fd \in Fds |-> "none"]
    /\ param = [fd \in Fds |-> NoParam]
    /\ partial = [fd \in Fds |-> FALSE]
    /\ timer = [fd \in Fds |-> 0]
    /\ clientid2fd = [id \in Ids |-> NoFd]
    /\ topic2client = [tp \in Topics |-> {}]
    /\ stack = <<>>
    /\ cont = NoCont

Init == InitBroker(TRUE)

-----------------------------------------------------------------------------
(* Process death and restart.                                              *)

(* A Lua error in a callback (a failed assert, a nil handle or table key)  *)
(* ends the process, and everything it held is gone.                       *)
Crash ==
    /\ up' = FALSE
    /\ state' = [fd \in Fds |-> "none"]
    /\ param' = [fd \in Fds |-> NoParam]
    /\ partial' = [fd \in Fds |-> FALSE]
    /\ timer' = [fd \in Fds |-> 0]
    /\ clientid2fd' = [id \in Ids |-> NoFd]
    /\ topic2client' = [tp \in Topics |-> {}]
    /\ stack' = <<>>
    /\ cont' = NoCont

(* sands.sh starts the broker again two seconds after it has ended. *)
Restart ==
    /\ ~up
    /\ up' = TRUE
    /\ UNCHANGED <<conns, clientid2fd, topic2client, calls>>

-----------------------------------------------------------------------------
(* Building blocks of the handlers.                                        *)

(* method.do_publish is entered: a frame over the subscribers of tp. *)
PushPublish(tp, tmap, st) ==
    IF tp = NoTopic THEN st
    ELSE <<[tp |-> tp, todo |-> tmap[tp]]>> \o st

(* Mutants: the topics are left alone; the whole topic map is dropped. *)
UnsubscribeNothing(fd, tps, tmap) == tmap
UnsubscribeEveryone(fd, tps, tmap) ==
    [tp \in Topics |-> IF tp \in tps THEN {} ELSE tmap[tp]]

(* unregister topic map to this connection(fd) *)
Unsubscribe(fd, tps, tmap) ==
    [tp \in Topics |-> IF tp \in tps THEN tmap[tp] \ {fd} ELSE tmap[tp]]

(* Mutant: the id stays registered when its connection goes. *)
UnregisterNothing(fd, cd) == clientid2fd

(* ins.clientid2fd[param.cd] = nil, whoever is registered there *)
Unregister(fd, cd) == [clientid2fd EXCEPT ![cd] = NoFd]

(* method.close_client for a connection whose param is p, with tmap and st *)
(* the topic map and the call stack at that point.                         *)
CloseClient(fd, p, tmap, st) ==
    /\ state' = [state EXCEPT ![fd] = "none"]
    /\ param' = [param EXCEPT ![fd] = NoParam]
    /\ partial' = [partial EXCEPT ![fd] = FALSE]
    /\ timer' = [timer EXCEPT ![fd] = 0]
    /\ IF p = NoParam
       THEN /\ topic2client' = tmap
            /\ stack' = st
            /\ UNCHANGED clientid2fd
       ELSE /\ topic2client' = Unsubscribe(fd, p.tp, tmap)
            /\ clientid2fd' = Unregister(fd, p.cd)
            /\ stack' = PushPublish(p.wt, Unsubscribe(fd, p.tp, tmap), st)

(* The end of on_client_data after a successful command.  When the data    *)
(* that came with it ends inside another command (rest), the loop returns  *)
(* from parse_ready and the timer is not restarted.                        *)
EndData(fd, rest) ==
    /\ partial' = [partial EXCEPT ![fd] = rest]
    /\ timer' = IF rest THEN timer ELSE [timer EXCEPT ![fd] = KpTicks]

-----------------------------------------------------------------------------
(* Callbacks.                                                              *)

(* method.on_connection *)
OnConnection(fd) ==
    /\ Idle
    /\ ~Live(fd)
    /\ state' = [state EXCEPT ![fd] = "new"]
    /\ param' = [param EXCEPT ![fd] = NoParam]
    /\ partial' = [partial EXCEPT ![fd] = FALSE]
    /\ timer' = [timer EXCEPT ![fd] = NewTicks]
    /\ UNCHANGED <<up, clientid2fd, topic2client, calls>>

(* The close_client calls made by callbacks that do nothing else. *)
Drop(fd) ==
    /\ Idle
    /\ Live(fd)
    /\ CloseClient(fd, param[fd], topic2client, stack)
    /\ UNCHANGED <<up, cont>>

(* read callback with an error or end of file *)
OnEof(fd) == Drop(fd)

(* Mutant: only the connect command is guarded by a timer. *)
OnTimeoutNewOnly(fd) == timer[fd] = 0 /\ state[fd] = "new" /\ Drop(fd)

(* timeout_cb of an expired timer *)
OnTimeout(fd) == timer[fd] = 0 /\ Drop(fd)

(* unparsable data, a field shorter than three bytes, no id, unknown id *)
BadData(fd) == Drop(fd)

(* cmd_map.dc: closed by the handler; the close after it finds no entry *)
CmdDc(fd) == Drop(fd)

(* Mutant: any data restarts the timer. *)
PartialDataRestarts(fd) ==
    /\ Idle
    /\ Live(fd)
    /\ partial' = [partial EXCEPT ![fd] = TRUE]
    /\ timer' = [timer EXCEPT ![fd] = NewTicks]
    /\ UNCHANGED <<up, state, param, clientid2fd, topic2client, calls>>

(* data that ends inside the first command *)
PartialData(fd) ==
    /\ Idle
    /\ Live(fd)
    /\ partial' = [partial EXCEPT ![fd] = TRUE]
    /\ UNCHANGED <<up, state, param, timer, clientid2fd, topic2client, calls>>

(* cmd_map.cn in state st_auth, cmd_map.pb and cmd_map.pi in state st_new, *)
(* cmd_map.pb without topic or payload: the handler returns nil.           *)
CmdRefused(fd) == Drop(fd)

(* cmd_map.cn up to the point where the topics have been registered *)
Subscribe(fd, r) ==
    [tp \in Topics |-> topic2client[tp] \cup
                       IF r.valid /\ tp \in r.tp THEN {fd} ELSE {}]

(* Mutant: the assignment m.tp = topics is missing. *)
ParamOfUnparsed(r) == [cd |-> r.cd, tp |-> {}, wt |-> r.wt]

(* param.tp is replaced by the table of topics once the list is complete *)
ParamOf(r) == [cd |-> r.cd, tp |-> IF r.valid /\ ~r.gap THEN r.tp ELSE {},
               wt |-> r.wt]

Admissible(r) == r.valid /\ ~r.gap /\ clientid2fd[r.cd] = NoFd

(* cmd_map.cn, refused: invalid param, version, authorization or topics,   *)
(* or the id already exists.  climap.param is set before the checks, and   *)
(* close_client indexes clientid2fd with param.cd.                         *)
CmdCnRefused(fd, r) ==
    /\ Idle
    /\ state[fd] = "new"
    /\ ~Admissible(r)
    /\ \/ /\ r.cd = NoId
          /\ Crash
       \/ /\ r.cd # NoId
          /\ CloseClient(fd, ParamOf(r), Subscribe(fd, r), stack)
          /\ UNCHANGED <<up, cont>>

(* cmd_map.cn, admitted, up to the return of do_publish(ct, cp) *)
CmdCn(fd, r, rest) ==
    /\ Idle
    /\ state[fd] = "new"
    /\ Admissible(r)
    /\ param' = [param EXCEPT ![fd] = ParamOf(r)]
    /\ topic2client' = Subscribe(fd, r)
    /\ clientid2fd' = [clientid2fd EXCEPT ![r.cd] = fd]
    /\ stack' = PushPublish(r.ct, Subscribe(fd, r), stack)
    /\ cont' = [op |-> "cn", fd |-> fd, rest |-> rest]
    /\ UNCHANGED <<up, state, partial, timer>>

(* cmd_map.pb *)
CmdPb(fd, tp, rest) ==
    /\ Idle
    /\ state[fd] = "auth"
    /\ stack' = PushPublish(tp, topic2client, stack)
    /\ cont' = [op |-> "pb", fd |-> fd, rest |-> rest]
    /\ UNCHANGED <<up, conns, clientid2fd, topic2client>>

(* cmd_map.pi; the result of its write is ignored *)
CmdPi(fd, rest) ==
    /\ Idle
    /\ state[fd] = "auth"
    /\ EndData(fd, rest)
    /\ UNCHANGED <<up, state, param, clientid2fd, topic2client, calls>>

-----------------------------------------------------------------------------
(* The inside of do_publish, and the return to the waiting handler.        *)

(* the subscribers that the loop over tmap has still to visit *)
Unvisited == stack[1].todo \cap topic2client[stack[1].tp]

(* Mutant: the loop is left after the first subscriber. *)
VisitedOnlyOne(fd) == <<[stack[1] EXCEPT !.todo = {}]>> \o Tail(stack)

Visited(fd) == <<[stack[1] EXCEPT !.todo = @ \ {fd}]>> \o Tail(stack)

(* one round of the loop: assert(climap), write, close_client on error *)
PublishTo(fd) ==
    /\ up
    /\ stack # <<>>
    /\ fd \in Unvisited
    /\ \/ /\ ~Live(fd)
          /\ Crash
       \/ /\ Live(fd)
          /\ stack' = Visited(fd)
          /\ UNCHANGED <<up, conns, clientid2fd, topic2client, cont>>
       \/ /\ Live(fd)
          /\ WriteFails
          /\ CloseClient(fd, param[fd], topic2client, Visited(fd))
          /\ UNCHANGED <<up, cont>>

(* Mutant: the loop waits for subscribers that are closed meanwhile. *)
PublishEndSnapshot ==
    /\ up
    /\ stack # <<>>
    /\ stack[1].todo = {}
    /\ stack' = Tail(stack)
    /\ UNCHANGED <<up, conns, clientid2fd, topic2client, cont>>

(* do_publish returns *)
PublishEnd ==
    /\ up
    /\ stack # <<>>
    /\ Unvisited = {}
    /\ stack' = Tail(stack)
    /\ UNCHANGED <<up, conns, clientid2fd, topic2client, cont>>

(* The rest of cmd_map.cn: the state, the connack, then on_client_data.    *)
(* If do_publish has closed this very connection, climap.client is nil.    *)
CnReturn(fd) ==
    /\ \/ /\ Live(fd)
          /\ state' = [state EXCEPT ![fd] = "auth"]
          /\ EndData(fd, cont.rest)
          /\ UNCHANGED <<param, clientid2fd, topic2client, stack>>
       \/ /\ Live(fd)
          /\ WriteFails
          /\ CloseClient(fd, param[fd], topic2client, stack)
    /\ cont' = NoCont
    /\ UNCHANGED up

(* The rest of cmd_map.pb: on_client_data goes on with the connection.     *)
PbReturn(fd) ==
    /\ Live(fd)
    /\ EndData(fd, cont.rest)
    /\ cont' = NoCont
    /\ UNCHANGED <<up, state, param, clientid2fd, topic2client, stack>>

(* The connection closed itself inside do_publish.  on_client_data uses    *)
(* its timer or asserts its entry, unless only a part of a command is left *)
(* behind a publish.                                                       *)
SelfClosedReturn(fd) ==
    /\ ~Live(fd)
    /\ \/ Crash
       \/ /\ cont.op = "pb" /\ cont.rest
          /\ cont' = NoCont
          /\ UNCHANGED <<up, conns, clientid2fd, topic2client, stack>>

Return ==
    /\ up
    /\ stack = <<>>
    /\ cont # NoCont
    /\ \/ cont.op = "cn" /\ CnReturn(cont.fd)
       \/ cont.op = "pb" /\ PbReturn(cont.fd)
       \/ SelfClosedReturn(cont.fd)

-----------------------------------------------------------------------------
(* Time passes on the timers of the open connections. *)
Tick ==
    /\ Idle
    /\ \E fd \in Fds : timer[fd] > 0
    /\ timer' = [fd \in Fds |-> IF timer[fd] > 0 THEN timer[fd] - 1 ELSE 0]
    /\ UNCHANGED <<up, state, param, partial, clientid2fd, topic2client, calls>>

Callback(fd) ==
    \/ OnConnection(fd)
    \/ OnEof(fd)
    \/ OnTimeout(fd)
    \/ BadData(fd)
    \/ PartialData(fd)
    \/ CmdDc(fd)
    \/ CmdRefused(fd)
    \/ \E r \in ConnReqs : CmdCnRefused(fd, r)
    \/ \E r \in ConnReqs, rest \in BOOLEAN : CmdCn(fd, r, rest)
    \/ \E tp \in Topics, rest \in BOOLEAN : CmdPb(fd, tp, rest)
    \/ \E rest \in BOOLEAN : CmdPi(fd, rest)

Inside == (\E fd \in Fds : PublishTo(fd)) \/ PublishEnd \/ Return

Next == (\E fd \in Fds : Callback(fd)) \/ Inside \/ Tick \/ Restart

Spec == Init /\ [][Next]_vars

(***************************************************************************)
(* A callback that has started is run by the interpreter to its end, and   *)
(* sands.sh restarts the process.  Time and timers are strongly fair:      *)
(* libuv runs the expired timers in every round of its loop before it      *)
(* polls for data, so traffic cannot starve them.  Nothing is assumed of   *)
(* the clients.                                                            *)
(***************************************************************************)
Fairness ==
    /\ WF_vars(Inside)
    /\ WF_vars(Restart)
    /\ SF_vars(Tick)
    /\ \A fd \in Fds : SF_vars(OnTimeout(fd))

FairSpec == Spec /\ Fairness

-----------------------------------------------------------------------------
(* Type invariant: the broker's tables have the shape new() and            *)
(* on_connection give them, and a descriptor outside clientmap carries no  *)
(* leftovers of an earlier connection.                                     *)
TypeOK ==
    /\ up \in BOOLEAN
    /\ state \in [Fds -> {"none", "new", "auth"}]
    /\ param \in [Fds -> Param \cup {NoParam}]
    /\ partial \in [Fds -> BOOLEAN]
    /\ timer \in [Fds -> Nat]
    /\ clientid2fd \in [Ids -> Fds \cup {NoFd}]
    /\ topic2client \in [Topics -> SUBSET Fds]
    /\ stack \in Seq(Frame)
    /\ cont \in Cont \cup {NoCont}

(* Registered ids are live: clientid2fd never points to a connection that  *)
(* is closed, or that has connected under another id.  A stale entry would *)
(* lock the id out until the broker restarts (sands.lua:105, 225, 232).    *)
RegistryLive ==
    \A id \in Ids : clientid2fd[id] # NoFd =>
        /\ Live(clientid2fd[id])
        /\ param[clientid2fd[id]] # NoParam
        /\ param[clientid2fd[id]].cd = id

(* Every subscriber that do_publish can meet is an open connection that    *)
(* asked for that topic: the assertion at sands.lua:145, and no topic is   *)
(* inherited by the next user of a descriptor.                             *)
SubscribersLive ==
    \A tp \in Topics : \A fd \in topic2client[tp] :
        /\ Live(fd)
        /\ param[fd] # NoParam
        /\ tp \in param[fd].tp

(* An authenticated connection is subscribed to all its topics, whatever   *)
(* other connections that share its topics or its id do                    *)
(* (sands.lua:98-103, 206-216).                                            *)
AuthSubscribed ==
    \A fd \in Fds : state[fd] = "auth" =>
        /\ param[fd] # NoParam
        /\ \A tp \in param[fd].tp : fd \in topic2client[tp]

(* No callback ends the broker process: none of the assertions and nil     *)
(* handles of sands.lua is met (lines 41, 145, 177, 250, 266, 276, 311).   *)
BrokerUp == up

(* At most one authenticated connection per client id: what the            *)
(* "already exist" refusal is there for (sands.lua:225-229).               *)
UniqueIds ==
    \A f, g \in Fds : state[f] = "auth" /\ state[g] = "auth" /\ f # g =>
        param[f].cd # param[g].cd

(* The connect command makes a session, which lasts until the connection   *)
(* is closed; a do_publish in progress owes its message to the sessions it *)
(* has not visited.                                                        *)
CastOf(f, par) ==
    [tp |-> f.tp, todo |-> {fd \in f.todo : par[fd] # NoParam /\ f.tp \in par[fd].tp}]
CastsOf(st, par) == [i \in 1..Len(st) |-> CastOf(st[i], par)]

(* The broker implements PubSub whatever clients send and however writes   *)
(* fail, also when closing and publishing call each other: a session's     *)
(* topics and will come and go together, every session that a publish      *)
(* finds is visited once or closed before do_publish returns, and each     *)
(* will is published (sands.lua:91-109, 127-149, 206-237).                 *)
Service == INSTANCE PubSub WITH
               Conns <- Fds, Ids <- Ids, Topics <- Topics, NoTopic <- NoTopic,
               NoSession <- NoParam,
               session <- param, casts <- CastsOf(stack, param)
ImplementsPubSub == Service!Spec

(* A callback always returns to the event loop: the mutual recursion of    *)
(* do_publish and close_client (sands.lua:107, 147) ends, even when every  *)
(* write fails and every closed connection has a will.                     *)
CallbackEnds == Busy ~> ~Busy

(* A connection that does not get through the connect command is closed,   *)
(* also when it keeps sending incomplete data (sands.lua:60-62, 283).      *)
NewResolved == \A fd \in Fds : state[fd] = "new" ~> state[fd] # "new"

(* A connection stays only as long as it keeps sending complete commands:  *)
(* one that never restarts its keepalive timer again is closed             *)
(* (sands.lua:53-55, 311-315).                                             *)
HalfOpenReleased ==
    \A fd \in Fds : <>[](state[fd] = "auth") => []<>(timer[fd] = KpTicks)
=============================================================================
