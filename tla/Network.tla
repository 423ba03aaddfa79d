------------------------------ MODULE Network ------------------------------
(***************************************************************************)
(* The process network (network/main.lua), which sets the address of the   *)
(* bridge br-lan from ap_config.json: a static one, or one that udhcpc     *)
(* gets and keeps.  Every change of the file starts a coroutine with a new *)
(* check id; the loop that looks after udhcpc ends when its id is no       *)
(* longer the current one.  Commands run to their end within a step:       *)
(* os.execute blocks all coroutines.                                       *)
(***************************************************************************)
EXTENDS Naturals

CONSTANTS
    Statics,     \* static settings (address, mask, gateway, dns)
    Dhcp, None,
    MaxId,       \* bound on check_id
    MaxRestarts  \* bound on restarts of network

ASSUME NetworkAssumption ==
    Dhcp \notin Statics /\ None \notin Statics \cup {Dhcp} /\ MaxId \in Nat /\ MaxRestarts \in Nat

VARIABLES
    want, away,  \* the setting in ap_config.json; the file is moved away
    dirty,       \* its time is not the lasttime of chk
    checkId, lastStatic,
    co,          \* coroutines by id: none, new, acquire, keep
    bridge,      \* the setting br-lan has
    udhcpc,      \* udhcpc runs in the background
    missed,      \* history: a static setting was skipped that was not in use
    restarts

vars == <<want, away, dirty, checkId, lastStatic, co, bridge, udhcpc, missed, restarts>>

Ids == 1..MaxId
Settings == Statics \cup {Dhcp}

Init ==
    /\ want \in Settings /\ away = FALSE /\ dirty = TRUE
    /\ checkId = 0 /\ lastStatic = None
    /\ co = [i \in Ids |-> "none"]
    /\ bridge = None /\ udhcpc = FALSE
    /\ missed = FALSE /\ restarts = 0

(* cfgmgr saves: the file is away for a moment, then new *)
SaveAway ==
    /\ ~away /\ away' = TRUE
    /\ UNCHANGED <<want, dirty, checkId, lastStatic, co, bridge, udhcpc, missed, restarts>>

SaveIn ==
    /\ away /\ away' = FALSE
    /\ want' \in Settings
    /\ dirty' = TRUE
    /\ UNCHANGED <<checkId, lastStatic, co, bridge, udhcpc, missed, restarts>>

(* main starts while there is no file *)
StartNoFile ==
    /\ away /\ checkId = 0 /\ checkId < MaxId
    /\ checkId' = 1
    /\ co' = [co EXCEPT ![1] = "new"]
    /\ UNCHANGED <<want, away, dirty, lastStatic, bridge, udhcpc, missed, restarts>>

(* the loop of main; chk:check() is false while there is no file *)
Check ==
    /\ dirty /\ ~away /\ checkId < MaxId
    /\ dirty' = FALSE
    /\ checkId' = checkId + 1
    /\ co' = [co EXCEPT ![checkId + 1] = "new"]
    /\ UNCHANGED <<want, away, lastStatic, bridge, udhcpc, missed, restarts>>

(* promise: no address after 30 seconds *)
Promise ==
    /\ bridge = None /\ ~dirty
    /\ dirty' = TRUE
    /\ UNCHANGED <<want, away, checkId, lastStatic, co, bridge, udhcpc, missed, restarts>>

(* Mutant: udhcpc is left running. *)
SetStaticKeepsDhcp(s) ==
    /\ bridge' = s /\ lastStatic' = s /\ UNCHANGED udhcpc

SetStatic(s) ==
    /\ bridge' = s /\ lastStatic' = s /\ udhcpc' = FALSE

(* check_network with get_param: without a file the setting is dhcp *)
CheckNetwork(i) ==
    /\ co[i] = "new"
    /\ LET map == IF away THEN Dhcp ELSE want
       IN  \/ /\ map = Dhcp
              /\ co' = [co EXCEPT ![i] = "acquire"]
              /\ missed' = FALSE
              /\ UNCHANGED <<lastStatic, bridge, udhcpc>>
           \/ /\ map \notin {Dhcp, lastStatic}
              /\ co' = [co EXCEPT ![i] = "none"]
              /\ missed' = FALSE
              /\ SetStatic(map)
           \/ /\ map = lastStatic
              /\ co' = [co EXCEPT ![i] = "none"]
              /\ missed' = (bridge # map \/ udhcpc)
              /\ UNCHANGED <<lastStatic, bridge, udhcpc>>
    /\ UNCHANGED <<want, away, dirty, checkId, restarts>>

(* the first loop of start_dhcpc, which runs once: the last command of the *)
(* line is touch, and it succeeds; udhcpc stays if it got a lease          *)
Acquire(i) ==
    /\ co[i] = "acquire"
    /\ co' = [co EXCEPT ![i] = "keep"]
    /\ \/ i = checkId /\ udhcpc' = FALSE /\ UNCHANGED bridge
       \/ i = checkId /\ udhcpc' = TRUE /\ bridge' = Dhcp
       \/ i # checkId /\ UNCHANGED <<udhcpc, bridge>>
    /\ UNCHANGED <<want, away, dirty, checkId, lastStatic, missed, restarts>>

(* Mutant: the loop of an old id sleeps on. *)
KeepNeverEnds(i) ==
    /\ co[i] = "keep"
    /\ i = checkId /\ udhcpc' = TRUE /\ bridge' = Dhcp /\ UNCHANGED co
    /\ UNCHANGED <<want, away, dirty, checkId, lastStatic, missed, restarts>>

(* the second loop of start_dhcpc: udhcpc is started if it does not run, *)
(* and may again get no lease                                             *)
Keep(i) ==
    /\ co[i] = "keep"
    /\ \/ i # checkId /\ co' = [co EXCEPT ![i] = "none"] /\ UNCHANGED <<udhcpc, bridge>>
       \/ i = checkId /\ udhcpc' = TRUE /\ bridge' = Dhcp /\ UNCHANGED co
       \/ i = checkId /\ ~udhcpc /\ UNCHANGED <<udhcpc, bridge, co>>
    /\ UNCHANGED <<want, away, dirty, checkId, lastStatic, missed, restarts>>

(* udhcpc ends on its own; the address stays *)
UdhcpcDies ==
    /\ udhcpc /\ udhcpc' = FALSE
    /\ UNCHANGED <<want, away, dirty, checkId, lastStatic, co, bridge, missed, restarts>>

(* killstr network and its shell loop; udhcpc goes on *)
Restart ==
    /\ restarts < MaxRestarts
    /\ restarts' = restarts + 1
    /\ checkId' = 0 /\ lastStatic' = None /\ co' = [i \in Ids |-> "none"]
    /\ dirty' = TRUE
    /\ UNCHANGED <<want, away, bridge, udhcpc, missed>>

Coroutine(i) == CheckNetwork(i) \/ Acquire(i) \/ Keep(i)

Next ==
    \/ SaveAway \/ SaveIn \/ StartNoFile \/ Check \/ Promise \/ UdhcpcDies \/ Restart
    \/ \E i \in Ids : Coroutine(i)

Spec == Init /\ [][Next]_vars

(* Every coroutine goes on: each command of network ends (timeout -t 5). *)
FairSpec == Spec /\ WF_vars(Check) /\ \A i \in Ids : WF_vars(Coroutine(i))

-----------------------------------------------------------------------------
(* No change is pending and the coroutine of the last one has decided. *)
Settled == ~dirty /\ ~away /\ checkId > 0 /\ \A i \in Ids : co[i] # "new"

(* A static setting holds: once network has dealt with the last change,    *)
(* no udhcpc of an earlier one changes the address behind its back.  The   *)
(* one exception is a setting equal to the last static one that is skipped *)
(* although dhcp was used since (main.lua:161-169).                        *)
StaticHolds ==
    Settled /\ want \in Statics /\ ~missed => bridge = want /\ ~udhcpc

(* At most one loop looks after udhcpc in the end: a loop with an old id   *)
(* ends (main.lua:73-90).                                                  *)
OldLoopsEnd ==
    \A i \in Ids : co[i] \in {"acquire", "keep"} /\ i # checkId ~> co[i] \in {"none", "new"}

=============================================================================
