----------------------------- MODULE Discovery ------------------------------
(***************************************************************************)
(* How access points find the controller: on each one base/main.lua takes  *)
(* the address from ap_config.json or from beacon.json, connects and saves *)
(* remote_state.json; beacon/main.lua broadcasts that state on the LAN     *)
(* unless another access point does, and saves what the others broadcast   *)
(* in beacon.json.  The two processes share only these files.              *)
(*                                                                         *)
(* A beacon listens in windows of 6 seconds of its own and sends every 2.  *)
(* What is heard in a window is a part of what was sent in it (air); a     *)
(* beacon that sent all the time (due) is in it, but for a window in which *)
(* all its datagrams are lost.  A beacon hears itself: its socket is bound *)
(* to the broadcast address.                                               *)
(***************************************************************************)
EXTENDS Naturals, FiniteSets

CONSTANTS
    APs,                            \* access points, ordered as their apid
    Addrs,                          \* controllers
    Given,                          \* configurations at the start, each with
                                    \* what of MaxFaults is spent in it
    None,
    MaxFaults,                      \* bound on what the environment does,
    CfgCost                         \* and what a new configuration counts

ASSUME DiscoveryAssumption ==
    /\ APs \subseteq Nat /\ Addrs \subseteq Nat
    /\ None \notin Addrs /\ None \notin {"cfg", "beacon"}
    /\ Given \subseteq [cfg : [APs -> Addrs \cup {None}], spent : Nat]
    /\ MaxFaults \in Nat /\ CfgCost \in Nat \ {0}

VARIABLES
    alive,          \* controllers that accept connections
    cfg,            \* the controller of ap_config.json
    chost,          \* c_host of check_mqtt_change
    phase,          \* of start_remote: cfg, trying, connect, up; leaving
                    \* when check_mqtt_change is about to end base
    gtype, gaddr,   \* g_type; g_host, or the address that is being tried
    status,         \* remote_state.json
    kvmap, unread,  \* what the beacon last read of it; its time is not the
                    \* lasttime of run_internel
    bfile, dirty,   \* beacon.json; its time is not the lasttime of chk2
    enable,         \* enable_broadcast
    air, due,       \* contents sent, and who has been sending, since the
                    \* window of each began
    ever,           \* history: connections that were made
    faults          \* configurations set, controllers and windows lost, ...

base == <<chost, phase, gtype, gaddr>>
beacon == <<kvmap, enable, air, due>>
vars == <<alive, cfg, base, status, unread, bfile, dirty, beacon, ever, faults>>

Contents == [ap : APs, addr : Addrs]
States == [addr : Addrs, connecting : BOOLEAN]

(* get_content, nil while kvmap.connecting is not set *)
GetContent(a) ==
    IF kvmap[a] # None /\ kvmap[a].connecting
    THEN [ap |-> a, addr |-> kvmap[a].addr] ELSE None

Sends(a) == GetContent(a) # None /\ enable[a]

Senders == {a \in APs : Sends(a)}
Sent == {GetContent(a) : a \in Senders}

(* The beacons send what their state now is; the windows of W begin anew. *)
Broadcast(W) ==
    \E senders \in {Senders'}, sent \in {Sent'} :
       /\ air' = [b \in APs |-> IF b \in W THEN sent ELSE air[b] \cup sent]
       /\ due' = [b \in APs |-> IF b \in W THEN senders ELSE due[b] \cap senders]

(* table.sort of the contents: apid comes first in them *)
IsFirst(c, S) ==
    c \in S /\ \A d \in S : c.ap < d.ap \/ (c.ap = d.ap /\ c.addr <= d.addr)

Init ==
    /\ alive = Addrs
    /\ \E g \in Given : cfg = g.cfg /\ faults = g.spent
    /\ chost = cfg
    /\ phase = [a \in APs |-> "cfg"] /\ gtype = [a \in APs |-> None] /\ gaddr = gtype
    /\ status = gtype /\ kvmap = gtype /\ bfile = gtype
    /\ dirty = [a \in APs |-> FALSE] /\ unread = dirty /\ enable = dirty
    /\ air = [a \in APs |-> {}] /\ due = air
    /\ ever = {}

Faults(n) == faults + n <= MaxFaults /\ faults' = faults + n
Fault == Faults(1)

-----------------------------------------------------------------------------
(* base ends and base.sh starts it again *)
Exit(a) ==
    /\ phase' = [phase EXCEPT ![a] = "cfg"]
    /\ gtype' = [gtype EXCEPT ![a] = None] /\ gaddr' = [gaddr EXCEPT ![a] = None]
    /\ chost' = [chost EXCEPT ![a] = cfg[a]]

(* save_status.  Times are in seconds: the end of a connection may be      *)
(* saved in the second in which its beginning was saved and read, and then *)
(* the file has the time of what was read.  A new process of base starts   *)
(* two seconds later.                                                      *)
Save(a, s) ==
    /\ status' = [status EXCEPT ![a] = [addr |-> gaddr[a], connecting |-> s]]
    /\ \/ unread' = [unread EXCEPT ![a] = TRUE]
       \/ ~s /\ UNCHANGED unread

Goto(a, p) == phase' = [phase EXCEPT ![a] = p]

(* get_active_addr: the configured controller first; if it cannot be       *)
(* reached, the one of the beacon is read                                  *)
TryCfg(a) ==
    /\ phase[a] = "cfg"
    /\ \/ /\ cfg[a] \in alive
          /\ Goto(a, "connect")
          /\ gtype' = [gtype EXCEPT ![a] = "cfg"] /\ gaddr' = [gaddr EXCEPT ![a] = cfg[a]]
       \/ /\ cfg[a] \notin alive /\ bfile[a] # None
          /\ Goto(a, "trying") /\ gaddr' = [gaddr EXCEPT ![a] = bfile[a].addr]
          /\ UNCHANGED gtype
    /\ UNCHANGED <<alive, cfg, chost, status, unread, bfile, dirty, beacon, ever, faults>>

(* Mutant: g_type is not set. *)
TryBeaconNoType(a) ==
    /\ phase[a] = "trying"
    /\ \/ gaddr[a] \in alive /\ Goto(a, "connect") /\ UNCHANGED gaddr
       \/ /\ gaddr[a] \notin alive
          /\ Goto(a, "cfg") /\ gaddr' = [gaddr EXCEPT ![a] = None]
    /\ UNCHANGED <<alive, cfg, chost, gtype, status, unread, bfile, dirty, beacon, ever, faults>>

(* and tried, while beacon.json may change *)
TryBeacon(a) ==
    /\ phase[a] = "trying"
    /\ \/ /\ gaddr[a] \in alive
          /\ Goto(a, "connect") /\ gtype' = [gtype EXCEPT ![a] = "beacon"]
          /\ UNCHANGED gaddr
       \/ /\ gaddr[a] \notin alive
          /\ Goto(a, "cfg") /\ gaddr' = [gaddr EXCEPT ![a] = None]
          /\ UNCHANGED gtype
    /\ UNCHANGED <<alive, cfg, chost, status, unread, bfile, dirty, beacon, ever, faults>>

(* Mutant: the state is saved before the result of connect is known. *)
ConnectSavesFirst(a) ==
    /\ phase[a] = "connect"
    /\ Save(a, TRUE)
    /\ \/ /\ gaddr[a] \in alive
          /\ Goto(a, "up")
          /\ ever' = ever \cup {[ap |-> a, addr |-> gaddr[a]]}
          /\ UNCHANGED <<chost, gtype, gaddr>>
       \/ gaddr[a] \notin alive /\ Exit(a) /\ UNCHANGED ever
    /\ UNCHANGED <<alive, cfg, bfile, dirty, beacon, faults>>

(* start_remote after ping_remote *)
Connect(a) ==
    /\ phase[a] = "connect"
    /\ \/ /\ gaddr[a] \in alive
          /\ Goto(a, "up") /\ Save(a, TRUE)
          /\ ever' = ever \cup {[ap |-> a, addr |-> gaddr[a]]}
          /\ UNCHANGED <<chost, gtype, gaddr>>
       \/ gaddr[a] \notin alive /\ Exit(a) /\ UNCHANGED <<status, unread, ever>>
    /\ UNCHANGED <<alive, cfg, bfile, dirty, beacon, faults>>

(* on_disconnect of the remote client: its controller has gone, or only    *)
(* the connection has                                                      *)
OnDisconnect(a) ==
    /\ phase[a] = "up"
    /\ Save(a, FALSE)
    /\ Exit(a)
    /\ UNCHANGED <<alive, cfg, bfile, dirty, beacon, ever>>

(* check_mqtt_change: another controller in the configuration.  base       *)
(* removes beacon.json,                                                    *)
CheckCfg(a) ==
    /\ phase[a] # "leaving" /\ cfg[a] \notin {None, chost[a]}
    /\ bfile' = [bfile EXCEPT ![a] = None]
    /\ Goto(a, "leaving")
    /\ UNCHANGED <<alive, cfg, chost, gtype, gaddr, status, unread, dirty, beacon, ever, faults>>

(* kills the beacon, which starts anew, and ends.                          *)
Leave(a) ==
    /\ phase[a] = "leaving"
    /\ enable' = [enable EXCEPT ![a] = FALSE]
    /\ kvmap' = [kvmap EXCEPT ![a] = None]
    /\ unread' = [unread EXCEPT ![a] = status[a] # None]
    /\ Exit(a)
    /\ UNCHANGED <<alive, cfg, status, bfile, dirty, ever, faults>>
    /\ Broadcast({a})

(* or in beacon.json: it is looked at only if it changes while the address *)
(* in use is one of the beacon's                                           *)
CheckBeacon(a) ==
    /\ phase[a] # "leaving" /\ dirty[a] /\ bfile[a] # None
    /\ dirty' = [dirty EXCEPT ![a] = FALSE]
    /\ IF gtype[a] = "beacon" /\ gaddr[a] # bfile[a].addr THEN Exit(a) ELSE UNCHANGED base
    /\ UNCHANGED <<alive, cfg, status, unread, bfile, beacon, ever, faults>>
-----------------------------------------------------------------------------
(* run_internel of content.lua, once a second: remote_state.json is read   *)
(* when its time is not the one of the last read                           *)
ReadState(a) ==
    /\ unread[a]
    /\ unread' = [unread EXCEPT ![a] = FALSE]
    /\ kvmap' = [kvmap EXCEPT ![a] = status[a]]
    /\ UNCHANGED <<alive, cfg, base, status, bfile, dirty, enable, ever, faults>>
    /\ Broadcast({})

(* Mutant: beacon.json is written only once. *)
SaveBroadcastOnce(b, c) ==
    IF bfile[b] # None
    THEN UNCHANGED <<bfile, dirty>>
    ELSE bfile' = [bfile EXCEPT ![b] = c] /\ dirty' = [dirty EXCEPT ![b] = TRUE]

(* save_broadcast: what is saved already is not written again *)
SaveBroadcast(b, c) ==
    IF bfile[b] = c
    THEN UNCHANGED <<bfile, dirty>>
    ELSE bfile' = [bfile EXCEPT ![b] = c] /\ dirty' = [dirty EXCEPT ![b] = TRUE]

(* What b heard in its window when it is over. *)
Heard(b, heard) ==
    \/ due[b] \subseteq {c.ap : c \in heard} /\ UNCHANGED faults
    \/ due[b] \notin SUBSET {c.ap : c \in heard} /\ Fault

(* Mutant: whoever hears itself goes on sending. *)
DecideOwn(b) ==
    /\ \E heard \in SUBSET air[b] :
          /\ Heard(b, heard)
          /\ enable' = [enable EXCEPT ![b] = heard = {} \/ GetContent(b) \in heard]
          /\ IF Cardinality(heard) = 1
             THEN \E c \in heard : SaveBroadcast(b, c)
             ELSE UNCHANGED <<bfile, dirty>>
    /\ UNCHANGED <<alive, cfg, base, status, unread, kvmap, ever>>
    /\ Broadcast({b})

(* the end of the loop of watch *)
Decide(b) ==
    /\ \E heard \in SUBSET air[b] :
          /\ Heard(b, heard)
          /\ enable' = [enable EXCEPT ![b] = heard = {} \/ IsFirst(GetContent(b), heard)]
          /\ IF Cardinality(heard) = 1
             THEN \E c \in heard : SaveBroadcast(b, c)
             ELSE UNCHANGED <<bfile, dirty>>
    /\ UNCHANGED <<alive, cfg, base, status, unread, kvmap, ever>>
    /\ Broadcast({b})

-----------------------------------------------------------------------------
(* The environment: cfgmgr writes another controller; a controller goes or *)
(* comes back, or a connection to one that accepts is lost; the local      *)
(* broker goes and base ends (start_local).                                *)
SetCfg(a) ==
    /\ Faults(CfgCost)
    /\ \E x \in Addrs \ {cfg[a]} : cfg' = [cfg EXCEPT ![a] = x]
    /\ UNCHANGED <<alive, base, status, unread, bfile, dirty, beacon, ever>>

Down(x) ==
    /\ x \in alive /\ Fault
    /\ alive' = alive \ {x}
    /\ UNCHANGED <<cfg, base, status, unread, bfile, dirty, beacon, ever>>

Up(x) ==
    /\ x \notin alive /\ Fault
    /\ alive' = alive \cup {x}
    /\ UNCHANGED <<cfg, base, status, unread, bfile, dirty, beacon, ever>>

Gone(a) == gaddr[a] \notin alive /\ OnDisconnect(a) /\ UNCHANGED faults
Lost(a) == gaddr[a] \in alive /\ OnDisconnect(a) /\ Fault

LocalDisconnect(a) ==
    /\ phase[a] # "leaving" /\ Fault
    /\ Exit(a)
    /\ UNCHANGED <<alive, cfg, status, unread, bfile, dirty, beacon, ever>>

Remote(a) == TryCfg(a) \/ TryBeacon(a) \/ Connect(a) \/ Gone(a)
CheckMqttChange(a) == CheckCfg(a) \/ Leave(a) \/ CheckBeacon(a)

Next ==
    \/ \E a \in APs : \/ Remote(a) \/ CheckMqttChange(a) \/ ReadState(a) \/ Decide(a)
                      \/ SetCfg(a) \/ Lost(a) \/ LocalDisconnect(a)
    \/ \E x \in Addrs : Down(x) \/ Up(x)

Spec == Init /\ [][Next]_vars

(* Each coroutine runs on timers and on calls with timeouts. *)
FairSpec ==
    /\ Spec
    /\ \A a \in APs : /\ WF_vars(Remote(a)) /\ WF_vars(CheckMqttChange(a))
                      /\ WF_vars(ReadState(a)) /\ WF_vars(Decide(a))

-----------------------------------------------------------------------------
TypeOK ==
    /\ alive \subseteq Addrs
    /\ cfg \in [APs -> Addrs \cup {None}] /\ chost \in [APs -> Addrs \cup {None}]
    /\ phase \in [APs -> {"cfg", "trying", "connect", "up", "leaving"}]
    /\ gtype \in [APs -> {"cfg", "beacon", None}] /\ gaddr \in [APs -> Addrs \cup {None}]
    /\ \A a \in APs : phase[a] \in {"connect", "up"} => gaddr[a] # None /\ gtype[a] # None
    /\ status \in [APs -> States \cup {None}]
    /\ kvmap \in [APs -> States \cup {None}] /\ unread \in [APs -> BOOLEAN]
    /\ bfile \in [APs -> Contents \cup {None}] /\ dirty \in [APs -> BOOLEAN]
    /\ enable \in [APs -> BOOLEAN]
    /\ air \in [APs -> SUBSET Contents] /\ due \in [APs -> SUBSET APs]
    /\ \A b \in APs : \A a \in due[b] : Sends(a)

(* Every address that is broadcast, heard or saved is one that the access  *)
(* point named in it was connected to, whatever ended in between           *)
(* (base/main.lua:185, 193; content.lua:35-45): nobody is sent to an       *)
(* address that was only configured.                                       *)
AddressesWereConnected ==
    \A a \in APs :
       /\ air[a] \subseteq ever /\ bfile[a] \in ever \cup {None}
       /\ GetContent(a) \in ever \cup {None}

(* A beacon has a state that says connected and is not (any more). *)
Stale(a) == GetContent(a) # None /\ ~(phase[a] = "up" /\ gaddr[a] = kvmap[a].addr)
Stable ==
    /\ \A a \in APs : ~Stale(a)
    /\ \E a \in APs : cfg[a] \in alive

(* In the end exactly one access point of a LAN broadcasts, although each  *)
(* decides alone after a window of its own (beacon/main.lua:79-97).        *)
OneBeacon ==
    <>[]Stable => <>[](Cardinality(Senders) = 1)

(* In the end every access point is connected, also one without a working  *)
(* configuration of its own: the beacon leads it there (base:110-126).     *)
Attached ==
    <>[]Stable => <>[](\A a \in APs : phase[a] = "up")
=============================================================================
