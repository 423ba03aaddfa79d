--------------------------- MODULE NetworkProofs ----------------------------
(***************************************************************************)
(* Proofs about module Network: for any static settings, any number of     *)
(* changes and restarts, a static setting that was not skipped is the one  *)
(* in force once network has dealt with the last change.                   *)
(***************************************************************************)
EXTENDS Network, TLAPS

Places == {"none", "new", "acquire", "keep"}

TypeOK ==
    /\ want \in Settings /\ away \in BOOLEAN /\ dirty \in BOOLEAN
    /\ checkId \in 0..MaxId /\ lastStatic \in Statics \cup {None}
    /\ co \in [Ids -> Places]
    /\ bridge \in Settings \cup {None} /\ udhcpc \in BOOLEAN /\ missed \in BOOLEAN
    /\ restarts \in 0..MaxRestarts

(* A coroutine has been started, unless main still has to look at the file *)
Noticed == checkId = 0 => dirty

(* While the file is the one that was noticed last, the coroutine of that  *)
(* change has yet to read it or has dealt with it: then no coroutine of an *)
(* earlier change can set anything else, since all of them read this file  *)
(* and find the setting to be the last static one.                         *)
Decided ==
    ~dirty /\ ~away /\ want \in Statics =>
        \/ co[checkId] = "new"
        \/ /\ co[checkId] = "none"
           /\ lastStatic = want
           /\ ~missed => bridge = want /\ ~udhcpc

IInv == TypeOK /\ Noticed /\ Decided

LEMMA InitIInv == Init => IInv
<1> SUFFICES ASSUME Init PROVE IInv
  OBVIOUS
<1>1. checkId \in 0..MaxId /\ restarts \in 0..MaxRestarts
  BY NetworkAssumption DEF Init
<1>2. co \in [Ids -> Places]
  BY DEF Init, Places
<1>3. TypeOK
  BY <1>1, <1>2 DEF Init, TypeOK
<1>4. Noticed /\ Decided
  BY DEF Init, Noticed, Decided
<1> QED BY <1>3, <1>4 DEF IInv

(* The current coroutine, or one that an earlier change left behind, reads *)
(* the file.                                                               *)
LEMMA CheckNetworkKeeps ==
    ASSUME IInv, NEW i \in Ids, CheckNetwork(i)
    PROVE  IInv'
<1> USE NetworkAssumption
<1> DEFINE map == IF away THEN Dhcp ELSE want
<1>1. /\ UNCHANGED <<want, away, dirty, checkId, restarts>> /\ co[i] = "new"
      /\ map \in Settings
      /\ \E where \in {"acquire", "none"} : co' = [co EXCEPT ![i] = where]
  BY DEF CheckNetwork, IInv, TypeOK, Settings
<1>2. CASE map = Dhcp /\ missed' = FALSE /\ co' = [co EXCEPT ![i] = "acquire"]
           /\ UNCHANGED <<lastStatic, bridge, udhcpc>>
  <2>1. TypeOK' /\ Noticed'
    BY <1>1, <1>2 DEF IInv, TypeOK, Noticed, Places
  <2>2. away' \/ want' \notin Statics
    BY <1>1, <1>2
  <2> QED BY <2>1, <2>2 DEF IInv, Decided
<1>3. CASE map \notin {Dhcp, lastStatic} /\ co' = [co EXCEPT ![i] = "none"] /\ missed' = FALSE
           /\ SetStatic(map)
  <2>1. map \in Statics /\ map = want
    BY <1>1, <1>3 DEF Settings
  <2>2. bridge' = want' /\ lastStatic' = want' /\ udhcpc' = FALSE
    BY <1>1, <1>3, <2>1 DEF SetStatic
  <2>3. TypeOK' /\ Noticed'
    BY <1>1, <1>3, <2>1, <2>2 DEF IInv, TypeOK, Noticed, Places, Settings
  <2>4. ~dirty /\ ~away => checkId \in Ids
    BY DEF IInv, TypeOK, Noticed, Ids
  <2>5. Decided'
    <3>1. CASE i = checkId
      BY <1>1, <1>3, <2>2, <3>1 DEF IInv, TypeOK, Decided
    <3>2. CASE i # checkId
      BY <1>1, <1>3, <2>1, <2>2, <2>4, <3>2 DEF IInv, TypeOK, Decided
    <3> QED BY <3>1, <3>2
  <2> QED BY <2>3, <2>5 DEF IInv
<1>4. CASE map = lastStatic /\ co' = [co EXCEPT ![i] = "none"] /\ missed' = (bridge # map \/ udhcpc)
           /\ UNCHANGED <<lastStatic, bridge, udhcpc>>
  <2>1. map \in Statics /\ map = want
    BY <1>1, <1>4 DEF Settings, IInv, TypeOK
  <2>2. missed' \in BOOLEAN /\ (~missed' => bridge' = want' /\ ~udhcpc')
    BY <1>1, <1>4, <2>1 DEF IInv, TypeOK
  <2>3. TypeOK' /\ Noticed'
    BY <1>1, <1>4, <2>2 DEF IInv, TypeOK, Noticed, Places
  <2>4. ~dirty /\ ~away => checkId \in Ids
    BY DEF IInv, TypeOK, Noticed, Ids
  <2>5. Decided'
    <3>1. CASE i = checkId
      BY <1>1, <1>4, <2>1, <2>2, <3>1 DEF IInv, TypeOK, Decided
    <3>2. CASE i # checkId
      BY <1>1, <1>4, <2>1, <2>2, <2>4, <3>2 DEF IInv, TypeOK, Decided
    <3> QED BY <3>1, <3>2
  <2> QED BY <2>3, <2>5 DEF IInv
<1> QED BY <1>2, <1>3, <1>4 DEF CheckNetwork

(* The loops of start_dhcpc touch nothing for an earlier change, and the   *)
(* current change is not static when its coroutine is in one of them.      *)
LEMMA LoopsKeep ==
    ASSUME IInv, NEW i \in Ids, Acquire(i) \/ Keep(i)
    PROVE  IInv'
<1> USE NetworkAssumption
<1>1. /\ UNCHANGED <<want, away, dirty, checkId, lastStatic, missed, restarts>>
      /\ co[i] \in {"acquire", "keep"}
      /\ co' = co \/ \E where \in {"keep", "none"} : co' = [co EXCEPT ![i] = where]
      /\ i # checkId => UNCHANGED <<udhcpc, bridge>>
  BY DEF Acquire, Keep
<1>2. TypeOK'
  <2>1. udhcpc' \in BOOLEAN /\ bridge' \in Settings \cup {None}
    BY DEF Acquire, Keep, IInv, TypeOK, Settings
  <2>2. co' \in [Ids -> Places]
    BY <1>1 DEF IInv, TypeOK, Places
  <2> QED BY <1>1, <2>1, <2>2 DEF IInv, TypeOK
<1>3. Noticed'
  BY <1>1 DEF IInv, Noticed
<1>4. Decided'
  <2>1. CASE i = checkId
    BY <1>1, <2>1 DEF IInv, Decided
  <2>2. CASE i # checkId
    <3>1. ~dirty /\ ~away => checkId \in Ids
      BY DEF IInv, TypeOK, Noticed, Ids
    <3>2. ~dirty /\ ~away => co'[checkId] = co[checkId]
      BY <1>1, <2>2, <3>1 DEF IInv, TypeOK
    <3> QED BY <1>1, <2>2, <3>2 DEF IInv, Decided
  <2> QED BY <2>1, <2>2
<1> QED BY <1>2, <1>3, <1>4 DEF IInv

(* Every step keeps the invariant.                                         *)
LEMMA NextIInv == IInv /\ [Next]_vars => IInv'
<1> SUFFICES ASSUME IInv, [Next]_vars PROVE IInv'
  OBVIOUS
<1> USE NetworkAssumption
<1>1. CASE SaveAway
  BY <1>1 DEF SaveAway, IInv, TypeOK, Noticed, Decided
<1>2. CASE SaveIn
  BY <1>2 DEF SaveIn, IInv, TypeOK, Noticed, Decided
<1>3. CASE StartNoFile
  BY <1>3 DEF StartNoFile, IInv, TypeOK, Noticed, Decided, Ids, Places
<1>4. CASE Check
  <2>1. checkId + 1 \in Ids /\ checkId' = checkId + 1
    BY <1>4 DEF Check, IInv, TypeOK, Ids
  <2>2. co' \in [Ids -> Places] /\ co'[checkId'] = "new"
    BY <1>4, <2>1 DEF Check, IInv, TypeOK, Places
  <2>3. TypeOK'
    <3>1. checkId' \in 0..MaxId
      BY <2>1 DEF Ids
    <3> QED BY <1>4, <2>2, <3>1 DEF Check, IInv, TypeOK
  <2>4. Noticed'
    BY <2>1 DEF Noticed, IInv, TypeOK
  <2> QED BY <2>2, <2>3, <2>4 DEF IInv, Decided
<1>5. CASE Promise
  BY <1>5 DEF Promise, IInv, TypeOK, Noticed, Decided
<1>6. CASE UdhcpcDies
  BY <1>6 DEF UdhcpcDies, IInv, TypeOK, Noticed, Decided
<1>7. CASE Restart
  BY <1>7 DEF Restart, IInv, TypeOK, Noticed, Decided, Places
<1>8. ASSUME NEW i \in Ids, Coroutine(i) PROVE IInv'
  BY <1>8, CheckNetworkKeeps, LoopsKeep DEF Coroutine
<1>9. CASE UNCHANGED vars
  BY <1>9 DEF vars, IInv, TypeOK, Noticed, Decided
<1> QED BY <1>1, <1>2, <1>3, <1>4, <1>5, <1>6, <1>7, <1>8, <1>9 DEF Next

(* The invariant holds in every reachable state of network. *)
THEOREM Invariance == Spec => []IInv
BY InitIInv, NextIInv, PTL DEF Spec

(* The tables of network keep their shape. *)
THEOREM TypeCorrect == Spec => []TypeOK
<1>1. IInv => TypeOK
  BY DEF IInv
<1> QED BY <1>1, Invariance, PTL

(* A static setting that was not skipped holds (main.lua:97-170): when the *)
(* last change is dealt with, the bridge has it and udhcpc does not run,   *)
(* however many coroutines of earlier changes are left.                    *)
THEOREM StaticSettingHolds == Spec => []StaticHolds
<1>1. IInv => StaticHolds
  <2> SUFFICES ASSUME IInv, Settled, want \in Statics, ~missed
               PROVE  bridge = want /\ ~udhcpc
    BY DEF StaticHolds
  <2>1. checkId \in Ids
    BY DEF Settled, IInv, TypeOK, Ids
  <2> QED BY <2>1 DEF Settled, IInv, Decided
<1> QED BY <1>1, Invariance, PTL

-----------------------------------------------------------------------------
(* The exception is the one main.lua:161-169 makes: lastStatic survives a  *)
(* coroutine that decides for dhcp, and nothing else separates it from     *)
(* what the bridge has.                                                    *)

(* A coroutine finds dhcp in the file, or no file. *)
DecidesDhcp == \E i \in Ids : co[i] = "new" /\ co'[i] = "acquire"

(* What holds before that: nobody looks after udhcpc, nothing was skipped  *)
(* and the static setting remembered is the one in force.                  *)
NoDhcp ==
    /\ \A i \in Ids : co[i] \in {"none", "new"}
    /\ ~udhcpc /\ ~missed
    /\ lastStatic # None => bridge = lastStatic

LEMMA NextNoDhcp ==
    IInv /\ NoDhcp /\ [Next]_vars /\ [~DecidesDhcp]_vars => NoDhcp'
<1> SUFFICES ASSUME IInv, NoDhcp, Next, ~DecidesDhcp PROVE NoDhcp'
  BY DEF vars, NoDhcp
<1> USE NetworkAssumption
<1>1. CASE SaveAway \/ SaveIn \/ Promise \/ UdhcpcDies
  BY <1>1 DEF SaveAway, SaveIn, Promise, UdhcpcDies, NoDhcp
<1>2. CASE StartNoFile
  BY <1>2 DEF StartNoFile, NoDhcp, IInv, TypeOK
<1>3. CASE Check
  BY <1>3 DEF Check, NoDhcp, IInv, TypeOK
<1>4. CASE Restart
  BY <1>4 DEF Restart, NoDhcp
<1>5. ASSUME NEW i \in Ids, Coroutine(i) PROVE NoDhcp'
  <2>1. CheckNetwork(i)
    BY <1>5 DEF Coroutine, Acquire, Keep, NoDhcp
  <2> DEFINE map == IF away THEN Dhcp ELSE want
  <2>2. co[i] = "new" /\ ~(co' = [co EXCEPT ![i] = "acquire"])
    BY <2>1 DEF CheckNetwork, DecidesDhcp, IInv, TypeOK
  <2>3. CASE map \notin {Dhcp, lastStatic} /\ co' = [co EXCEPT ![i] = "none"]
             /\ missed' = FALSE /\ SetStatic(map)
    BY <2>3 DEF SetStatic, NoDhcp, IInv, TypeOK
  <2>4. CASE map = lastStatic /\ co' = [co EXCEPT ![i] = "none"]
             /\ missed' = (bridge # map \/ udhcpc) /\ UNCHANGED <<lastStatic, bridge, udhcpc>>
    <3>1. lastStatic # None
      BY <2>4 DEF IInv, TypeOK, Settings
    <3> QED BY <2>4, <3>1 DEF NoDhcp, IInv, TypeOK
  <2> QED BY <2>1, <2>2, <2>3, <2>4 DEF CheckNetwork
<1> QED BY <1>1, <1>2, <1>3, <1>4, <1>5 DEF Next

(* Until the first coroutine that decides for dhcp, a static setting holds *)
(* without exception, over any number of changes, waits for an address and *)
(* restarts: only a change to dhcp and back, or a look at the file while   *)
(* it was away, can make network skip a setting that is not in force       *)
(* (main.lua:97-106, 161-169).                                             *)
THEOREM OnlyDhcpMakesItSkip ==
    Spec /\ [][~DecidesDhcp]_vars
        => [](Settled /\ want \in Statics => bridge = want /\ ~udhcpc)
<1>1. Init => NoDhcp
  BY DEF Init, NoDhcp
<1>2. StaticHolds /\ NoDhcp => (Settled /\ want \in Statics => bridge = want /\ ~udhcpc)
  BY DEF StaticHolds, NoDhcp
<1> QED BY <1>1, <1>2, Invariance, StaticSettingHolds, NextNoDhcp, PTL DEF Spec
=============================================================================
