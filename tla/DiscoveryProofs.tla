-------------------------- MODULE DiscoveryProofs ---------------------------
(***************************************************************************)
(* Proofs about module Discovery: the tables keep their shape, and no      *)
(* access point is sent to an address to which nobody was ever connected. *)
(***************************************************************************)
EXTENDS Discovery, TLAPS

(* What is sent and heard after a step that leaves the beacons states. *)
LEMMA BroadcastType ==
    ASSUME TypeOK, NEW W \in SUBSET APs, Broadcast(W),
           kvmap' \in [APs -> States \cup {None}]
    PROVE  /\ air' \in [APs -> SUBSET Contents] /\ due' \in [APs -> SUBSET APs]
           /\ \A b \in APs : \A a \in due'[b] : Sends(a)'
<1>1. Sent' \subseteq Contents
  <2>1. \A a \in APs : GetContent(a)' \in Contents \cup {None}
    BY DEF GetContent, Contents, States
  <2> QED BY <2>1 DEF Sent, Senders, Sends
<1>2. Senders' \subseteq APs /\ \A a \in Senders' : Sends(a)'
  BY DEF Senders
<1>3. /\ air' = [b \in APs |-> IF b \in W THEN Sent' ELSE air[b] \cup Sent']
      /\ due' = [b \in APs |-> IF b \in W THEN Senders' ELSE due[b] \cap Senders']
  BY DEF Broadcast
<1> QED BY <1>1, <1>2, <1>3 DEF TypeOK

(* The conjuncts of TypeOK about base alone. *)
Attempts ==
    /\ phase \in [APs -> {"cfg", "trying", "connect", "up", "leaving"}]
    /\ gtype \in [APs -> {"cfg", "beacon", None}] /\ gaddr \in [APs -> Addrs \cup {None}]
    /\ chost \in [APs -> Addrs \cup {None}]
    /\ \A a \in APs : phase[a] \in {"connect", "up"} => gaddr[a] # None /\ gtype[a] # None

(* A new start of base has chosen no address. *)
LEMMA ExitType ==
    ASSUME TypeOK, NEW a \in APs, Exit(a)
    PROVE  Attempts'
BY DEF TypeOK, Exit, Attempts

(* A state that is saved after an address was chosen. *)
LEMMA SaveType ==
    ASSUME TypeOK, NEW a \in APs, NEW s \in BOOLEAN, Save(a, s),
           phase[a] \in {"connect", "up"}
    PROVE  status' \in [APs -> States \cup {None}] /\ unread' \in [APs -> BOOLEAN]
<1>1. gaddr[a] \in Addrs
  BY DEF TypeOK
<1>2. [addr |-> gaddr[a], connecting |-> s] \in States
  BY <1>1 DEF States
<1>3. status' \in [APs -> States \cup {None}]
  BY <1>2 DEF TypeOK, Save
<1>4. unread' \in [APs -> BOOLEAN]
  BY DEF TypeOK, Save
<1> QED BY <1>3, <1>4

(* One step keeps every table in shape; what a beacon that sends all the   *)
(* time is said to send goes on being sent.                                *)
LEMMA TypeStep == TypeOK /\ [Next]_vars => TypeOK'
<1> SUFFICES ASSUME TypeOK, [Next]_vars PROVE TypeOK'
  OBVIOUS
<1> USE DiscoveryAssumption
<1>1. ASSUME NEW a \in APs, TryCfg(a) PROVE TypeOK'
  <2>1. Attempts'
    <3>1. CASE cfg[a] \in alive
      <4>1. cfg[a] \in Addrs /\ cfg[a] # None
        BY <3>1 DEF TypeOK
      <4>2. /\ phase' = [phase EXCEPT ![a] = "connect"] /\ gtype' = [gtype EXCEPT ![a] = "cfg"]
            /\ gaddr' = [gaddr EXCEPT ![a] = cfg[a]] /\ chost' = chost
        BY <1>1, <3>1 DEF TryCfg, Goto
      <4> QED BY <4>1, <4>2 DEF TypeOK, Attempts
    <3>2. CASE cfg[a] \notin alive
      <4>1. bfile[a].addr \in Addrs
        BY <1>1, <3>2 DEF TryCfg, TypeOK, Contents
      <4> QED BY <1>1, <3>2, <4>1 DEF TryCfg, Goto, TypeOK, Attempts
    <3> QED BY <3>1, <3>2
  <2> QED BY <1>1, <2>1 DEF TryCfg, beacon, TypeOK, Attempts, Sends, GetContent
<1>2. ASSUME NEW a \in APs, TryBeacon(a) PROVE TypeOK'
  <2>1. Attempts'
    <3>1. CASE gaddr[a] \in alive
      <4>1. gaddr[a] # None
        BY <3>1 DEF TypeOK
      <4>2. /\ phase' = [phase EXCEPT ![a] = "connect"]
            /\ gtype' = [gtype EXCEPT ![a] = "beacon"] /\ UNCHANGED <<gaddr, chost>>
        BY <1>2, <3>1 DEF TryBeacon, Goto
      <4> QED BY <4>1, <4>2 DEF TypeOK, Attempts
    <3>2. CASE gaddr[a] \notin alive
      BY <1>2, <3>2 DEF TryBeacon, Goto, TypeOK, Attempts
    <3> QED BY <3>1, <3>2
  <2> QED BY <1>2, <2>1 DEF TryBeacon, beacon, TypeOK, Attempts, Sends, GetContent
<1>3. ASSUME NEW a \in APs, Connect(a) \/ OnDisconnect(a) PROVE TypeOK'
  <2>1. Attempts'
    <3>1. CASE Exit(a)
      BY <3>1, ExitType
    <3>2. CASE phase[a] = "connect" /\ Goto(a, "up") /\ UNCHANGED <<chost, gtype, gaddr>>
      BY <3>2 DEF Goto, TypeOK, Attempts
    <3> QED BY <1>3, <3>1, <3>2 DEF Connect, OnDisconnect
  <2>2. status' \in [APs -> States \cup {None}] /\ unread' \in [APs -> BOOLEAN]
    BY <1>3, SaveType DEF Connect, OnDisconnect, TypeOK
  <2>3. UNCHANGED <<alive, cfg, bfile, dirty, beacon>>
    BY <1>3 DEF Connect, OnDisconnect
  <2> QED BY <2>1, <2>2, <2>3 DEF TypeOK, Attempts, beacon, Sends, GetContent
<1>4. ASSUME NEW a \in APs, CheckMqttChange(a) PROVE TypeOK'
  <2>1. CASE CheckCfg(a)
    BY <2>1 DEF CheckCfg, Goto, beacon, TypeOK, Sends, GetContent
  <2>2. CASE Leave(a)
    <3>1. Attempts'
      BY <2>2, ExitType DEF Leave
    <3>2. Broadcast({a}) /\ UNCHANGED <<alive, cfg, status, bfile, dirty>>
      BY <2>2 DEF Leave
    <3>3. kvmap' \in [APs -> States \cup {None}]
      BY <2>2 DEF Leave, TypeOK
    <3>4. enable' \in [APs -> BOOLEAN] /\ unread' \in [APs -> BOOLEAN]
      BY <2>2, Zenon DEF Leave, TypeOK
    <3> QED BY <3>1, <3>2, <3>3, <3>4, BroadcastType DEF TypeOK, Attempts
  <2>3. CASE CheckBeacon(a)
    <3>1. Attempts'
      BY <2>3, ExitType DEF CheckBeacon, base, TypeOK, Attempts
    <3> QED BY <2>3, <3>1 DEF CheckBeacon, beacon, TypeOK, Attempts, Sends, GetContent
  <2> QED BY <1>4, <2>1, <2>2, <2>3 DEF CheckMqttChange
<1>5. ASSUME NEW a \in APs, ReadState(a) PROVE TypeOK'
  <2>1. Broadcast({}) /\ UNCHANGED <<alive, cfg, base, status, bfile, dirty, enable>>
    BY <1>5 DEF ReadState
  <2>2. kvmap' \in [APs -> States \cup {None}]
    BY <1>5 DEF ReadState, TypeOK
  <2>3. unread' \in [APs -> BOOLEAN]
    BY <1>5 DEF ReadState, TypeOK
  <2> QED BY <2>1, <2>2, <2>3, BroadcastType DEF TypeOK, base
<1>6. ASSUME NEW b \in APs, Decide(b) PROVE TypeOK'
  <2>1. Broadcast({b}) /\ UNCHANGED <<alive, cfg, base, status, unread, kvmap>>
    BY <1>6 DEF Decide
  <2>2. enable' \in [APs -> BOOLEAN]
    <3>1. PICK heard \in SUBSET air[b] :
             enable' = [enable EXCEPT ![b] = heard = {} \/ IsFirst(GetContent(b), heard)]
      BY <1>6 DEF Decide
    <3>2. (heard = {} \/ IsFirst(GetContent(b), heard)) \in BOOLEAN
      BY Zenon
    <3> QED BY <3>1, <3>2, Zenon DEF TypeOK
  <2>3. bfile' \in [APs -> Contents \cup {None}] /\ dirty' \in [APs -> BOOLEAN]
    <3>1. \/ UNCHANGED <<bfile, dirty>>
          \/ \E c \in air[b] : /\ bfile' = [bfile EXCEPT ![b] = c]
                               /\ dirty' = [dirty EXCEPT ![b] = TRUE]
      BY <1>6 DEF Decide, SaveBroadcast
    <3>2. bfile' \in [APs -> Contents \cup {None}]
      BY <3>1 DEF TypeOK
    <3>3. dirty' \in [APs -> BOOLEAN]
      BY <3>1, Zenon DEF TypeOK
    <3> QED BY <3>2, <3>3
  <2>4. kvmap' \in [APs -> States \cup {None}]
    BY <2>1 DEF TypeOK
  <2> QED BY <2>1, <2>2, <2>3, <2>4, BroadcastType DEF TypeOK, base
<1>7. ASSUME NEW a \in APs, SetCfg(a) PROVE TypeOK'
  BY <1>7 DEF SetCfg, base, beacon, TypeOK, Sends, GetContent
<1>8. ASSUME NEW a \in APs, LocalDisconnect(a) PROVE TypeOK'
  <2>1. Attempts'
    BY <1>8, ExitType DEF LocalDisconnect
  <2> QED BY <1>8, <2>1 DEF LocalDisconnect, beacon, TypeOK, Attempts, Sends, GetContent
<1>9. ASSUME NEW x \in Addrs, Down(x) \/ Up(x) PROVE TypeOK'
  <2>1. alive' \subseteq Addrs
    BY <1>9 DEF Down, Up, TypeOK
  <2>2. UNCHANGED <<cfg, base, status, unread, bfile, dirty, beacon>>
    BY <1>9 DEF Down, Up
  <2> QED BY <2>1, <2>2 DEF base, beacon, TypeOK, Sends, GetContent
<1>10. CASE UNCHANGED vars
  BY <1>10 DEF vars, base, beacon, TypeOK, Sends, GetContent
<1> QED
  BY <1>1, <1>2, <1>3, <1>4, <1>5, <1>6, <1>7, <1>8, <1>9, <1>10
     DEF Next, Remote, Gone, Lost

(* The tables of base and beacon keep their shape, an access point that    *)
(* connects has an address to connect to, and a beacon that is due in a    *)
(* window is sending (base/main.lua:110-159, beacon/main.lua:31-52).       *)
THEOREM TypeCorrect == Spec => []TypeOK
<1>1. Init => TypeOK
  BY DiscoveryAssumption DEF Init, TypeOK
<1>2. TypeOK /\ [Next]_vars => TypeOK'
  BY TypeStep
<1> QED BY <1>1, <1>2, PTL DEF Spec

-----------------------------------------------------------------------------
(* remote_state.json says connected only for a connection that was made,   *)
(* and what the beacon knows, what travels and what is saved comes from it. *)
Made(a, s) == s # None /\ s.connecting => [ap |-> a, addr |-> s.addr] \in ever

Origin ==
    /\ \A a \in APs : Made(a, status[a]) /\ Made(a, kvmap[a])
    /\ \A a \in APs : air[a] \subseteq ever
    /\ \A a \in APs : bfile[a] \in ever \cup {None}

(* The tables are functions of the access points. *)
Tables ==
    /\ DOMAIN status = APs /\ DOMAIN kvmap = APs
    /\ DOMAIN air = APs /\ DOMAIN bfile = APs

IInv == Tables /\ Origin

(* The content a beacon sends is the state it has read. *)
LEMMA ContentFromState ==
    ASSUME Origin, NEW a \in APs
    PROVE  GetContent(a) \in ever \cup {None}
BY DEF Origin, GetContent, Made

(* What is sent after a step that keeps the states true was connected, so  *)
(* the windows keep holding only such contents.                            *)
LEMMA BroadcastKeeps ==
    ASSUME Tables, Origin, NEW W \in SUBSET APs, Broadcast(W),
           ever \subseteq ever', \A a \in APs : Made(a, kvmap[a])'
    PROVE  /\ DOMAIN air' = APs
           /\ \A a \in APs : air'[a] \subseteq ever'
<1>1. Sent' \subseteq ever'
  BY DEF Sent, Senders, Sends, GetContent, Made
<1>2. air' = [b \in APs |-> IF b \in W THEN Sent' ELSE air[b] \cup Sent']
  BY DEF Broadcast
<1> QED BY <1>1, <1>2 DEF Origin

(* Only Connect writes that a state is connected, and it records it.       *)
LEMMA Preserved == IInv /\ [Next]_vars => IInv'
<1> SUFFICES ASSUME IInv, [Next]_vars PROVE IInv'
  OBVIOUS
<1> USE DEF IInv, Tables
<1>1. ASSUME NEW a \in APs, TryCfg(a) \/ TryBeacon(a) PROVE IInv'
  BY <1>1 DEF TryCfg, TryBeacon, beacon, Origin, Made
<1>2. ASSUME NEW a \in APs, Connect(a) PROVE IInv'
  <2>1. /\ ever \subseteq ever' /\ DOMAIN status' = APs
        /\ UNCHANGED <<bfile, kvmap, air>>
    BY <1>2 DEF Connect, Save, beacon
  <2>2. ASSUME NEW b \in APs PROVE Made(b, status[b])'
    <3>1. CASE b = a /\ ever' = ever \cup {[ap |-> a, addr |-> gaddr[a]]} /\ Save(a, TRUE)
      BY <3>1 DEF Save, Made
    <3>2. CASE b # a \/ UNCHANGED status
      BY <1>2, <2>1, <3>2 DEF Connect, Save, Origin, Made
    <3> QED BY <1>2, <3>1, <3>2 DEF Connect
  <2>3. \A b \in APs : Made(b, kvmap[b])'
    BY <2>1 DEF Origin, Made
  <2>4. \A b \in APs : air'[b] \subseteq ever' /\ bfile'[b] \in ever' \cup {None}
    BY <2>1 DEF Origin
  <2> QED BY <2>1, <2>2, <2>3, <2>4 DEF Origin
<1>3. ASSUME NEW a \in APs, OnDisconnect(a) PROVE IInv'
  <2>1. DOMAIN status' = APs /\ UNCHANGED <<ever, bfile, kvmap, air>>
    BY <1>3 DEF OnDisconnect, Save, beacon
  <2>2. ASSUME NEW b \in APs PROVE Made(b, status[b])'
    BY <1>3, <2>1 DEF OnDisconnect, Save, Origin, Made
  <2> QED BY <2>1, <2>2 DEF Origin, Made
<1>4. ASSUME NEW a \in APs, CheckCfg(a) \/ CheckBeacon(a) PROVE IInv'
  <2>1. /\ UNCHANGED <<ever, status, kvmap, air>>
        /\ bfile' = bfile \/ bfile' = [bfile EXCEPT ![a] = None]
    BY <1>4 DEF CheckCfg, CheckBeacon, beacon
  <2> QED BY <2>1 DEF Origin, Made
<1>5. ASSUME NEW a \in APs, Leave(a) \/ ReadState(a) PROVE IInv'
  <2>1. UNCHANGED <<ever, status, bfile>> /\ \E W \in SUBSET APs : Broadcast(W)
    BY <1>5 DEF Leave, ReadState
  <2>2. \/ kvmap' = [kvmap EXCEPT ![a] = None]
        \/ kvmap' = [kvmap EXCEPT ![a] = status[a]]
    BY <1>5 DEF Leave, ReadState
  <2>3. DOMAIN kvmap' = APs /\ \A b \in APs : Made(b, status[b])' /\ Made(b, kvmap[b])'
    BY <2>1, <2>2 DEF Origin, Made
  <2>4. DOMAIN air' = APs /\ \A b \in APs : air'[b] \subseteq ever'
    BY <2>1, <2>3, BroadcastKeeps
  <2> QED BY <2>1, <2>3, <2>4 DEF Origin
<1>6. ASSUME NEW b \in APs, Decide(b) PROVE IInv'
  <2>1. UNCHANGED <<ever, status, kvmap>> /\ Broadcast({b})
    BY <1>6 DEF Decide
  <2>2. \A c \in APs : Made(c, status[c])' /\ Made(c, kvmap[c])'
    BY <2>1 DEF Origin, Made
  <2>3. DOMAIN air' = APs /\ \A c \in APs : air'[c] \subseteq ever'
    BY <2>1, <2>2, BroadcastKeeps
  <2>4. bfile' = bfile \/ \E c \in air[b] : bfile' = [bfile EXCEPT ![b] = c]
    BY <1>6 DEF Decide, SaveBroadcast
  <2>5. DOMAIN bfile' = APs /\ \A c \in APs : bfile'[c] \in ever' \cup {None}
    BY <2>1, <2>4 DEF Origin
  <2> QED BY <2>1, <2>2, <2>3, <2>5 DEF Origin
<1>7. ASSUME NEW a \in APs, SetCfg(a) \/ LocalDisconnect(a) PROVE IInv'
  BY <1>7 DEF SetCfg, LocalDisconnect, beacon, Origin, Made
<1>8. ASSUME NEW x \in Addrs, Down(x) \/ Up(x) PROVE IInv'
  BY <1>8 DEF Down, Up, beacon, Origin, Made
<1>9. CASE UNCHANGED vars
  BY <1>9 DEF vars, beacon, Origin, Made
<1> QED
  BY <1>1, <1>2, <1>3, <1>4, <1>5, <1>6, <1>7, <1>8, <1>9
     DEF Next, Remote, CheckMqttChange, Gone, Lost

(* Every address that is broadcast, heard or saved was connected by the    *)
(* access point named with it, for any number of access points,            *)
(* controllers and faults (base/main.lua:184-193, beacon/main.lua:35-52).  *)
THEOREM OnlyConnectedAddresses == Spec => []AddressesWereConnected
<1>1. Init => IInv
  BY DEF Init, IInv, Tables, Origin, Made
<1>2. IInv /\ [Next]_vars => IInv'
  BY Preserved
<1>3. IInv => AddressesWereConnected
  BY ContentFromState DEF IInv, Origin, AddressesWereConnected
<1> QED BY <1>1, <1>2, <1>3, PTL DEF Spec

-----------------------------------------------------------------------------
(* remote_state.json against the connection it is about.                   *)
Connected(a) == [addr |-> gaddr[a], connecting |-> TRUE]
Saved == \A a \in APs : phase[a] = "up" => status[a] = Connected(a)

(* What a step does to the state and the connection of one access point.   *)
Apart(b) == phase[b] # "up" /\ phase'[b] # "up" /\ status'[b] = status[b]
Opens(b) ==
    /\ phase'[b] = "up" /\ gaddr'[b] = gaddr[b]
    /\ status'[b] = [addr |-> gaddr[b], connecting |-> TRUE]
Closes(b) ==
    /\ phase[b] = "up" /\ phase'[b] # "up"
    /\ status'[b] = [addr |-> gaddr[b], connecting |-> FALSE]
EndsUnsaved(b) == phase[b] = "up" /\ phase'[b] # "up" /\ status'[b] = status[b]
Rests(b) == UNCHANGED <<phase[b], gaddr[b], status[b]>>

LEMMA ExitEffect ==
    ASSUME TypeOK, NEW a \in APs, Exit(a), UNCHANGED status
    PROVE  \A b \in APs : Rests(b) \/ Apart(b) \/ EndsUnsaved(b)
BY DEF TypeOK, Exit, Rests, Apart, EndsUnsaved

LEMMA StepEffect ==
    ASSUME TypeOK, [Next]_vars, NEW b \in APs
    PROVE  Rests(b) \/ Apart(b) \/ Opens(b) \/ Closes(b) \/ EndsUnsaved(b)
<1>1. CASE UNCHANGED <<phase, gaddr, status>>
  BY <1>1 DEF Rests
<1>2. ASSUME NEW a \in APs, TryCfg(a) \/ TryBeacon(a)
      PROVE  Rests(b) \/ Apart(b)
  BY <1>2 DEF TypeOK, TryCfg, TryBeacon, Goto, Rests, Apart
<1>3. ASSUME NEW a \in APs, Connect(a)
      PROVE  Rests(b) \/ Apart(b) \/ Opens(b) \/ EndsUnsaved(b)
  <2>1. CASE Goto(a, "up") /\ Save(a, TRUE) /\ UNCHANGED gaddr
    BY <2>1 DEF TypeOK, Goto, Save, Rests, Opens
  <2>2. CASE Exit(a) /\ UNCHANGED status
    BY <2>2, ExitEffect
  <2> QED BY <1>3, <2>1, <2>2 DEF Connect
<1>4. ASSUME NEW a \in APs, OnDisconnect(a)
      PROVE  Rests(b) \/ Closes(b)
  BY <1>4 DEF TypeOK, OnDisconnect, Save, Exit, Rests, Closes
<1>5. ASSUME NEW a \in APs, CheckMqttChange(a)
      PROVE  Rests(b) \/ Apart(b) \/ EndsUnsaved(b)
  <2>1. UNCHANGED status /\ (Exit(a) \/ UNCHANGED base \/ CheckCfg(a))
    BY <1>5 DEF CheckMqttChange, CheckCfg, Leave, CheckBeacon
  <2>2. CASE Exit(a)
    BY <2>1, <2>2, ExitEffect
  <2>3. CASE UNCHANGED base
    BY <1>1, <2>1, <2>3 DEF base, Rests
  <2>4. CASE CheckCfg(a)
    BY <2>4 DEF TypeOK, CheckCfg, Goto, Rests, Apart, EndsUnsaved
  <2> QED BY <2>1, <2>2, <2>3, <2>4
<1>6. ASSUME NEW a \in APs, Decide(a) \/ SetCfg(a) \/ ReadState(a)
      PROVE  UNCHANGED <<phase, gaddr, status>>
  BY <1>6 DEF Decide, SetCfg, ReadState, base
<1>7. ASSUME NEW a \in APs, LocalDisconnect(a)
      PROVE  Rests(b) \/ Apart(b) \/ EndsUnsaved(b)
  BY <1>7, ExitEffect DEF LocalDisconnect
<1>8. ASSUME NEW x \in Addrs, Down(x) \/ Up(x) PROVE UNCHANGED <<phase, gaddr, status>>
  BY <1>8 DEF Down, Up, base
<1> QED BY <1>1, <1>2, <1>3, <1>4, <1>5, <1>6, <1>7, <1>8
           DEF Next, Remote, Gone, Lost, vars, base

(* While base is connected, the file that the beacon reads says so and     *)
(* names the controller in use, whatever else happens to the access point  *)
(* (base/main.lua:184-193).                                                *)
THEOREM ConnectedIsSaved == Spec => []Saved
<1>1. Init => Saved
  BY DEF Init, Saved
<1>2. TypeOK /\ Saved /\ [Next]_vars => Saved'
  <2> SUFFICES ASSUME TypeOK, Saved, [Next]_vars, NEW b \in APs, phase'[b] = "up"
               PROVE  status'[b] = Connected(b)'
    BY DEF Saved
  <2>1. Rests(b) \/ Opens(b)
    BY StepEffect DEF Apart, Closes, EndsUnsaved
  <2> QED BY <2>1 DEF Rests, Opens, Saved, Connected
<1> QED BY <1>1, <1>2, TypeCorrect, PTL DEF Spec

(* What a step does to what the beacon of one access point knows of the    *)
(* state: a new state is one that is not read yet, or was missed.          *)
Missed(b) == status'[b] # status[b] /\ ~unread'[b]
Reads(b) == status'[b] = status[b] /\ kvmap'[b] = status'[b]
KnowsAsBefore(b) == UNCHANGED <<status[b], unread[b], kvmap[b]>>

LEMMA SaveNoticed ==
    ASSUME TypeOK, NEW a \in APs, NEW s \in BOOLEAN, Save(a, s), UNCHANGED beacon, NEW b \in APs
    PROVE  KnowsAsBefore(b) \/ Missed(b) \/ unread'[b]
<1>1. CASE b # a
  <2>1. status'[b] = status[b] /\ kvmap' = kvmap
    BY <1>1 DEF TypeOK, Save, beacon
  <2>2. unread'[b] = unread[b]
    BY <1>1, Zenon DEF TypeOK, Save
  <2> QED BY <2>1, <2>2 DEF KnowsAsBefore
<1>2. CASE b = a
  <2>1. CASE unread' = [unread EXCEPT ![a] = TRUE]
    BY <1>2, <2>1, Zenon DEF TypeOK
  <2>2. CASE UNCHANGED unread /\ status'[b] = status[b]
    BY <2>2 DEF KnowsAsBefore, beacon
  <2>3. CASE status'[b] # status[b]
    BY <2>3 DEF Missed
  <2> QED BY <2>1, <2>2, <2>3 DEF Save
<1> QED BY <1>1, <1>2

LEMMA ReadEffect ==
    ASSUME TypeOK, [Next]_vars, NEW b \in APs
    PROVE  KnowsAsBefore(b) \/ Missed(b) \/ Reads(b) \/ unread'[b]
<1>1. CASE UNCHANGED <<status, unread, kvmap>>
  BY <1>1 DEF KnowsAsBefore
<1>2. ASSUME NEW a \in APs, Connect(a) \/ OnDisconnect(a)
      PROVE  KnowsAsBefore(b) \/ Missed(b) \/ unread'[b]
  BY <1>1, <1>2, SaveNoticed DEF Connect, OnDisconnect, beacon, KnowsAsBefore
<1>3. ASSUME NEW a \in APs, Leave(a) PROVE KnowsAsBefore(b) \/ Reads(b) \/ unread'[b]
  <2>1. CASE b # a
    <3>1. status' = status /\ kvmap'[b] = kvmap[b]
      BY <1>3, <2>1 DEF TypeOK, Leave
    <3>2. unread'[b] = unread[b]
      BY <1>3, <2>1, Zenon DEF TypeOK, Leave
    <3> QED BY <3>1, <3>2 DEF KnowsAsBefore
  <2>2. CASE b = a /\ status[a] = None
    BY <1>3, <2>2 DEF TypeOK, Leave, Reads
  <2>3. CASE b = a /\ status[a] # None
    BY <1>3, <2>3, Zenon DEF TypeOK, Leave
  <2> QED BY <2>1, <2>2, <2>3
<1>4. ASSUME NEW a \in APs, ReadState(a) PROVE KnowsAsBefore(b) \/ Reads(b)
  <2>1. CASE b # a
    <3>1. status' = status /\ kvmap'[b] = kvmap[b]
      BY <1>4, <2>1 DEF TypeOK, ReadState
    <3>2. unread'[b] = unread[b]
      BY <1>4, <2>1, Zenon DEF TypeOK, ReadState
    <3> QED BY <3>1, <3>2 DEF KnowsAsBefore
  <2>2. CASE b = a
    BY <1>4, <2>2 DEF TypeOK, ReadState, Reads
  <2> QED BY <2>1, <2>2
<1>5. ASSUME NEW a \in APs,
             \/ TryCfg(a) \/ TryBeacon(a) \/ CheckCfg(a) \/ CheckBeacon(a)
             \/ Decide(a) \/ SetCfg(a) \/ LocalDisconnect(a)
      PROVE  UNCHANGED <<status, unread, kvmap>>
  BY <1>5 DEF TryCfg, TryBeacon, CheckCfg, CheckBeacon, Decide, SetCfg, LocalDisconnect, beacon
<1>6. ASSUME NEW x \in Addrs, Down(x) \/ Up(x) PROVE UNCHANGED <<status, unread, kvmap>>
  BY <1>6 DEF Down, Up, beacon
<1> QED BY <1>1, <1>2, <1>3, <1>4, <1>5, <1>6
           DEF Next, Remote, CheckMqttChange, Gone, Lost, vars, beacon

(* A beacon announces a connection that is not (any more) no longer than   *)
(* until it next looks at remote_state.json (content.lua:48-57), unless    *)
(* base ended while connected without saving that (a changed configuration *)
(* or beacon, a lost local broker; base/main.lua:214-216, 241-270), or     *)
(* saved it in the second of what the beacon had read, whose time it then  *)
(* has (content.lua:52).                                                   *)
THEOREM CausesOfStaleState ==
    Spec /\ [][\A a \in APs : ~EndsUnsaved(a) /\ ~Missed(a)]_vars
         => [](\A a \in APs : Stale(a) => unread[a])
<1> DEFINE NotUp == \A a \in APs :
               phase[a] # "up" /\ status[a] # None => ~status[a].connecting
           Known == \A a \in APs : unread[a] \/ kvmap[a] = status[a]
           Calm == \A a \in APs : ~EndsUnsaved(a) /\ ~Missed(a)
           Brief == \A a \in APs : Stale(a) => unread[a]
<1>1. Init => NotUp /\ Known
  BY DEF Init
<1>2. TypeOK /\ NotUp /\ Known /\ [Next]_vars /\ [Calm]_vars => NotUp' /\ Known'
  <2> SUFFICES ASSUME TypeOK, NotUp, Known, [Next]_vars, [Calm]_vars, NEW b \in APs
               PROVE  /\ phase'[b] # "up" /\ status'[b] # None => ~status'[b].connecting
                      /\ unread'[b] \/ kvmap'[b] = status'[b]
    OBVIOUS
  <2>1. CASE UNCHANGED vars
    BY <2>1 DEF vars, base, beacon
  <2>2. CASE ~EndsUnsaved(b) /\ ~Missed(b)
    <3>1. Rests(b) \/ Apart(b) \/ Opens(b) \/ Closes(b)
      BY <2>2, StepEffect
    <3>2. phase'[b] # "up" /\ status'[b] # None => ~status'[b].connecting
      BY <3>1 DEF Rests, Apart, Opens, Closes
    <3>3. KnowsAsBefore(b) \/ Reads(b) \/ unread'[b]
      BY <2>2, ReadEffect
    <3>4. unread'[b] \/ kvmap'[b] = status'[b]
      BY <3>3 DEF KnowsAsBefore, Reads
    <3> QED BY <3>2, <3>4
  <2> QED BY <2>1, <2>2
<1>3. Saved /\ NotUp /\ Known => Brief
  <2> SUFFICES ASSUME Saved, NotUp, Known, NEW a \in APs, GetContent(a) # None, ~unread[a]
               PROVE  phase[a] = "up" /\ gaddr[a] = kvmap[a].addr
    BY DEF Stale
  <2>1. kvmap[a] = status[a] /\ status[a] # None /\ status[a].connecting
    BY DEF GetContent
  <2>2. phase[a] = "up"
    BY <2>1
  <2>3. status[a] = [addr |-> gaddr[a], connecting |-> TRUE]
    BY <2>2 DEF Saved, Connected
  <2> QED BY <2>1, <2>2, <2>3
<1> HIDE DEF NotUp, Known, Calm, Brief
<1>4. Spec /\ [][Calm]_vars => []Brief
  BY <1>1, <1>2, <1>3, TypeCorrect, ConnectedIsSaved, PTL DEF Spec
<1> QED BY <1>4 DEF Calm, Brief
=============================================================================
