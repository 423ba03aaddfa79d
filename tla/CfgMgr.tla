------------------------------- MODULE CfgMgr -------------------------------
(***************************************************************************)
(* The configuration of the access point: the process cfgmgr (apmgr.lua,   *)
(* cfgmgr.lua), the file ap_config.json it alone writes, the process base, *)
(* which touches the file, and setconf, one of the processes that watch    *)
(* its modification time (compare.lua) and read it when it changes.        *)
(*                                                                         *)
(* A configuration is the set of WLAN ids in a#wlanids, the set of WLANs   *)
(* whose w# keys are stored, the band list a#barr ("own" if it is the text *)
(* upload() sets, which never is the one of the default file: that has a   *)
(* space in it), and one value for all other keys.  Coroutines of cfgmgr   *)
(* switch only while one waits for the controller (AC), so a handler and   *)
(* its save are a sequence of file operations that only other processes, a *)
(* kill or a power cut can get between.                                    *)
(***************************************************************************)
EXTENDS Naturals

CONSTANTS
    Wlans, MaxBase,
    AcBands,      \* the band lists the controller may send
    NoCfg, NoFile, NoTime,
    Bad, Old,     \* contents that do not decode; a configuration of v1.0
    MaxClock,     \* the seconds a run lasts
    MaxFaults     \* bound on kills, power cuts and touches

Bands == {"default", "own"}
Config == [ids : SUBSET Wlans, wl : SUBSET Wlans, barr : Bands, base : 0..MaxBase]
Default == [ids |-> {}, wl |-> {}, barr |-> "default", base |-> 0]
Content == Config \cup {Bad, Old}
Seconds == 0..MaxClock

ASSUME CfgAssumption ==
    /\ AcBands \subseteq Bands
    /\ MaxBase \in Nat /\ MaxClock \in Nat \ {0} /\ MaxFaults \in Nat
    /\ Bad \notin Config /\ Old \notin Config /\ Bad # Old
    /\ \A c \in Config : NoCfg # c /\ NoCfg # [ids |-> c.ids, wl |-> c.wl, base |-> c.base]
    /\ NoFile \notin Content /\ NoTime \notin Seconds

VARIABLES
    file, ftime,  \* ap_config.json and its modification time
    data,         \* where its data is: on flash, or still in the kernel's cache
    tmp, ttime,   \* ap_config.json.tmp
    del,          \* ap_config.json.del
    clock,
    cfg,          \* cfgmgr: the table cfg
    pc,           \* down, load, cp (restore_default), parse, run
    reg,          \* upload(): waits for "check" or "upload", or done
    sav, after,   \* the file operation save_config does next; its caller
    last,         \* lasttime of chk_cfg
    wpc, wlast, applied,  \* setconf: control, lasttime, the configuration in use
    used, clash,  \* history: a time of ap_config.json came twice; its times before
    faults

files == <<file, ftime, tmp, ttime, del, data, used, clash>>
proc == <<cfg, pc, reg, sav, after, last>>
watcher == <<wpc, wlast, applied>>
vars == <<files, clock, proc, watcher, faults>>

Init ==
    /\ file \in {NoFile, Old, Default} /\ ftime = 0
    /\ tmp = NoFile /\ ttime = 0 /\ del = NoFile /\ data = "flash"
    /\ used = {0} /\ clash = FALSE
    /\ clock = 1
    /\ cfg = NoCfg /\ pc = "down" /\ reg = "check"
    /\ sav = "no" /\ after = "run" /\ last = NoTime
    /\ wpc = "down" /\ wlast = NoTime /\ applied = NoCfg
    /\ faults = 0

(* the content c, last modified at t, becomes ap_config.json *)
Install(c, t) ==
    /\ file' = c /\ ftime' = t
    /\ clash' = (clash \/ t \in used)
    /\ used' = IF clash' THEN {} ELSE used \cup {t}

Tick == clock < MaxClock /\ clock' = clock + 1 /\ UNCHANGED <<files, proc, watcher, faults>>

-----------------------------------------------------------------------------
(* The process ends; its shell loop starts it again. *)
Exit ==
    /\ pc' = "down" /\ cfg' = NoCfg /\ reg' = "check"
    /\ sav' = "no" /\ after' = "run"

(* start; lasttime comes from the memfile, where it may not be saved yet *)
Start ==
    /\ pc = "down"
    /\ pc' = IF file = NoFile THEN "cp" ELSE "parse"
    /\ last' \in {last, NoTime}
    /\ UNCHANGED <<files, clock, watcher, faults, cfg, reg, sav, after>>

(* restore_default: cp truncates the file and then fills it *)
CpOpen ==
    /\ pc = "cp" /\ file = NoFile
    /\ Install(Bad, clock)
    /\ UNCHANGED <<tmp, ttime, del, data, clock, proc, watcher, faults>>

CpDone ==
    /\ pc = "cp" /\ file # NoFile /\ sav = "no"
    /\ Install(Default, clock) /\ data' = "cache"
    /\ cfg' = Default
    /\ sav' = "tmp" /\ after' = "parse"
    /\ UNCHANGED <<tmp, ttime, del, clock, pc, reg, last, watcher, faults>>

(* Mutant: an undecodable file is not removed. *)
ParseKeepsBad ==
    \/ /\ file \in Config
       /\ cfg' = file /\ pc' = "run"
       /\ UNCHANGED <<reg, sav, after, file, data>>
    \/ /\ file \in {Bad, Old}
       /\ file' = IF file = Old THEN NoFile ELSE file
       /\ UNCHANGED data
       /\ Exit

(* Mutant: the configuration of v1.0 is removed, but the process goes on. *)
ParseOldStays ==
    \/ /\ file \in Config
       /\ cfg' = file /\ pc' = "run"
       /\ UNCHANGED <<reg, sav, after, file, data>>
    \/ /\ file = Bad
       /\ file' = NoFile /\ UNCHANGED data
       /\ Exit
    \/ /\ file = Old
       /\ file' = NoFile /\ UNCHANGED data
       /\ cfg' = Default /\ pc' = "run"
       /\ UNCHANGED <<reg, sav, after>>

(* parse and the end of load: what cannot be used is removed *)
Parse ==
    \/ /\ file \in Config
       /\ cfg' = file /\ pc' = "run"
       /\ UNCHANGED <<reg, sav, after, file, data>>
    \/ /\ file \in {Bad, Old}
       /\ file' = NoFile /\ UNCHANGED data
       /\ Exit

Load ==
    /\ pc = "parse"
    /\ Parse
    /\ UNCHANGED <<ftime, tmp, ttime, del, used, clash, clock, last, watcher, faults>>

(* the loop of start: chk_cfg:check() and load *)
Reload ==
    /\ pc = "run" /\ reg = "done" /\ sav = "no"
    /\ ftime # last
    /\ last' = ftime
    /\ Parse
    /\ UNCHANGED <<ftime, tmp, ttime, del, used, clash, clock, watcher, faults>>

-----------------------------------------------------------------------------
(* Mutant: checkcfg does not note a deletion. *)
ChangedNoDelete(new) ==
    \/ new.base # cfg.base \/ new.barr # cfg.barr \/ new.ids # cfg.ids
    \/ ~(new.wl \subseteq cfg.wl)

(* checkcfg: g_change after the keys of new were set *)
Changed(new) == new # cfg

(* the calls of checkcfg and save_config of a handler, and what follows *)
Commit(new, then) ==
    /\ cfg' = new
    /\ sav' = IF Changed(new) THEN "tmp" ELSE "done"
    /\ after' = then
    /\ UNCHANGED <<files, clock, pc, last, watcher, faults>>

Handling == pc = "run" /\ sav = "no"

(* Mutant: the keys of WLANs that are gone stay. *)
UpdateNoDelete(ids, barr, base) ==
    /\ Handling
    /\ Commit([ids |-> ids, wl |-> cfg.wl \cup ids, barr |-> barr, base |-> base], "current")
    /\ UNCHANGED reg

(* cmd_map.update *)
Update(ids, barr, base) ==
    /\ Handling
    /\ Commit([ids |-> ids, wl |-> (cfg.wl \ (cfg.ids \ ids)) \cup ids,
               barr |-> barr, base |-> base], "current")
    /\ UNCHANGED reg

(* cmd_map.replace *)
Replace(ids, barr, base) ==
    /\ Handling
    /\ Commit([ids |-> ids, wl |-> ids, barr |-> barr, base |-> base], "run")
    /\ UNCHANGED reg

(* cmd_map.ap_set_config *)
ApSetConfig(base) ==
    /\ Handling
    /\ Commit([cfg EXCEPT !.base = base], "exit")
    /\ UNCHANGED reg

(* cmd_map.delete, which removes another file and exits *)
CmdDelete ==
    /\ Handling
    /\ Exit
    /\ UNCHANGED <<files, clock, last, watcher, faults>>

(* The controller's answer to the first request of upload().  If it does   *)
(* not know the access point, cfg.set puts the band list into the table    *)
(* without g_change, and the next request is sent.                         *)
Registered ==
    /\ Handling /\ reg = "check"
    /\ \/ reg' = "done" /\ UNCHANGED cfg
       \/ reg' = "upload" /\ cfg' = [cfg EXCEPT !.barr = "own"]
    /\ UNCHANGED <<files, clock, pc, sav, after, last, watcher, faults>>

(* its answer to the second: the w# keys go, and only that calls for a save *)
Uploaded ==
    /\ Handling /\ reg = "upload"
    /\ reg' = "done"
    /\ Commit([cfg EXCEPT !.wl = {}], "run")

UploadFails ==
    /\ Handling /\ reg = "upload"
    /\ Exit
    /\ UNCHANGED <<files, clock, last, watcher, faults>>

-----------------------------------------------------------------------------
(* Mutant: the temporary file is not written. *)
SaveTmpNothing ==
    /\ sav = "tmp"
    /\ sav' = "away"
    /\ UNCHANGED <<files, clock, cfg, pc, reg, after, last, watcher, faults>>

(* save_config, one file operation a step *)
SaveTmp ==
    /\ sav = "tmp"
    /\ tmp' = cfg /\ ttime' = clock
    /\ sav' = "away"
    /\ UNCHANGED <<file, ftime, del, data, used, clash, clock, cfg, pc, reg, after, last,
                   watcher, faults>>

SaveAway ==
    /\ sav = "away" /\ file # NoFile
    /\ del' = file /\ file' = NoFile /\ data' = "flash"
    /\ sav' = "in"
    /\ UNCHANGED <<ftime, tmp, ttime, used, clash, clock, cfg, pc, reg, after, last,
                   watcher, faults>>

SaveIn ==
    /\ sav = "in"
    /\ Install(tmp, ttime)
    /\ tmp' = NoFile /\ ttime' = 0 /\ data' = "cache"
    /\ sav' = "clean"
    /\ UNCHANGED <<del, clock, cfg, pc, reg, after, last, watcher, faults>>

SaveClean ==
    /\ sav = "clean"
    /\ del' = NoFile
    /\ sav' = "done"
    /\ UNCHANGED <<file, ftime, data, tmp, ttime, used, clash, clock, cfg, pc, reg, after,
                   last, watcher, faults>>

(* the caller goes on: update calls save_current, ap_set_config exits,     *)
(* restore_default leaves an empty table to load                           *)
SaveDone ==
    /\ sav = "done"
    /\ \/ after = "exit" /\ Exit /\ UNCHANGED last
       \/ /\ after # "exit"
          /\ sav' = "no" /\ after' = "run"
          /\ last' = IF after = "current" THEN ftime ELSE last
          /\ cfg' = IF after = "parse" THEN NoCfg ELSE cfg
          /\ pc' = IF after = "parse" THEN "parse" ELSE pc
          /\ UNCHANGED reg
    /\ UNCHANGED <<files, clock, watcher, faults>>

-----------------------------------------------------------------------------
(* base kills cfgmgr when the address of its controller changes *)
Kill ==
    /\ faults < MaxFaults /\ pc # "down"
    /\ faults' = faults + 1
    /\ Exit
    /\ UNCHANGED <<files, clock, last, watcher>>

(* save_config never syncs: the kernel writes the data of a file back in   *)
(* its own time.  What is done to the names is on flash at once and in     *)
(* order; whether the data of .tmp and .del is does not matter, since no   *)
(* start reads them.                                                       *)
Writeback ==
    /\ data = "cache" /\ data' = "flash"
    /\ UNCHANGED <<file, ftime, tmp, ttime, del, used, clash, clock, proc, watcher, faults>>

(* A power cut or reboot: /tmp and with it every memfile is lost, and the  *)
(* file may be there without the data that was not written back.           *)
PowerCut ==
    /\ faults < MaxFaults
    /\ faults' = faults + 1
    /\ Exit /\ last' = NoTime
    /\ wpc' = "down" /\ wlast' = NoTime /\ applied' = NoCfg
    /\ file' \in IF data = "cache" THEN {file, Bad} ELSE {file}
    /\ data' = "flash"
    /\ UNCHANGED <<ftime, tmp, ttime, del, used, clash, clock>>

(* cmd_map.ap_reset: everything in flash is removed, then a reboot *)
ApReset ==
    /\ Handling /\ faults < MaxFaults
    /\ faults' = faults + 1
    /\ file' = NoFile /\ tmp' = NoFile /\ del' = NoFile /\ data' = "flash"
    /\ Exit /\ last' = NoTime
    /\ wpc' = "down" /\ wlast' = NoTime /\ applied' = NoCfg
    /\ UNCHANGED <<ftime, ttime, used, clash, clock>>

(* ping_remote of base touches the file when no controller answers *)
Touch ==
    /\ faults < MaxFaults
    /\ faults' = faults + 1
    /\ file = NoFile \/ ftime # clock
    /\ Install(IF file = NoFile THEN Bad ELSE file, clock)
    /\ UNCHANGED <<tmp, ttime, del, data, clock, proc, watcher>>

-----------------------------------------------------------------------------
WStart ==
    /\ wpc = "down"
    /\ wpc' = "idle" /\ wlast' = NoTime
    /\ UNCHANGED <<files, clock, proc, applied, faults>>

(* Mutant: the current time is kept instead of the file's. *)
WCheckClock ==
    /\ wpc = "idle" /\ file # NoFile /\ ftime # wlast
    /\ wpc' = "read" /\ wlast' = clock
    /\ UNCHANGED <<files, clock, proc, applied, faults>>

(* chk:check() of the loop of setconf *)
WCheck ==
    /\ wpc = "idle" /\ file # NoFile /\ ftime # wlast
    /\ wpc' = "read" /\ wlast' = ftime
    /\ UNCHANGED <<files, clock, proc, applied, faults>>

(* get_new_cfg and cfg_commit.check: nothing if the file is not there or   *)
(* does not decode; a failed assertion if a listed WLAN has no keys        *)
WRead ==
    /\ wpc = "read"
    /\ wpc' = IF file \in Config /\ ~(file.ids \subseteq file.wl) THEN "down" ELSE "idle"
    /\ applied' = IF file \in Config /\ file.ids \subseteq file.wl THEN file ELSE applied
    /\ UNCHANGED <<files, clock, proc, wlast, faults>>

-----------------------------------------------------------------------------
Save == SaveTmp \/ SaveAway \/ SaveIn \/ SaveClean \/ SaveDone
Begin == Start \/ CpOpen \/ CpDone \/ Load

Handle ==
    \/ \E ids \in SUBSET Wlans, barr \in AcBands, base \in 0..MaxBase :
           Update(ids, barr, base) \/ Replace(ids, barr, base)
    \/ \E base \in 0..MaxBase : ApSetConfig(base)
    \/ CmdDelete \/ Registered \/ Uploaded \/ UploadFails \/ Reload

Fault == Kill \/ PowerCut \/ ApReset \/ Touch
Watch == WStart \/ WCheck \/ WRead

Next == Begin \/ Handle \/ Save \/ Fault \/ Writeback \/ Watch \/ Tick

Spec == Init /\ [][Next]_vars

(* The shell loop starts cfgmgr again, and its steps up to run depend on   *)
(* nothing but the file system.                                            *)
FairSpec == Spec /\ WF_vars(Begin) /\ WF_vars(Save)

-----------------------------------------------------------------------------
TypeOK ==
    /\ file \in Content \cup {NoFile} /\ ftime \in Seconds
    /\ tmp \in Config \cup {NoFile} /\ ttime \in Seconds
    /\ del \in Content \cup {NoFile} /\ data \in {"flash", "cache"}
    /\ clock \in Seconds /\ used \subseteq Seconds /\ clash \in BOOLEAN
    /\ cfg \in Config \cup {NoCfg}
    /\ pc \in {"down", "cp", "parse", "run"}
    /\ reg \in {"check", "upload", "done"}
    /\ sav \in {"no", "tmp", "away", "in", "clean", "done"}
    /\ after \in {"run", "current", "exit", "parse"}
    /\ last \in Seconds \cup {NoTime}
    /\ wpc \in {"down", "idle", "read"} /\ wlast \in Seconds \cup {NoTime}
    /\ applied \in Config \cup {NoCfg}
    /\ faults \in 0..MaxFaults
    /\ sav \in {"away", "in"} => tmp \in Config

(* What a restart would load is what cfgmgr works with, whatever was       *)
(* killed, touched or half written before, but for the band list: the one  *)
(* upload() put into the table stays in memory alone until some key        *)
(* changes (cfgmgr.lua:26-98, apmgr.lua:67-94).                            *)
Unbanded(c) == [ids |-> c.ids, wl |-> c.wl, base |-> c.base]
Agree ==
    /\ file \in Config /\ Unbanded(file) = Unbanded(cfg)
    /\ file # cfg => reg # "check" /\ cfg.barr = "own" /\ file.barr # "own"
MemoryMatchesFile == Handling => Agree

(* The keys of a WLAN that is no longer listed do not stay behind, in      *)
(* memory or on disk, although updates arrive while upload waits and drops *)
(* keys on its own (apmgr.lua:89-94, 116-156).                             *)
NoOrphans ==
    /\ cfg \in Config => cfg.wl \subseteq cfg.ids
    /\ file \in Config => file.wl \subseteq file.ids

(* save_config finds a file to move away, so its log.fatal is never        *)
(* reached: nothing removes the file while cfgmgr runs (cfgmgr.lua:88-89). *)
SaveFindsFile == sav \in {"tmp", "away"} => file # NoFile

(* A watcher that is up to date by its times has applied what the file     *)
(* holds; it misses a change only if two versions of the file carry the    *)
(* same modification time, which counts in seconds (compare.lua:32-44).    *)
StaleOnlyOnClash ==
    wpc = "idle" /\ file \in Config /\ wlast = ftime /\ ~clash => applied = file

(* Over all the file operations, kills, power cuts and touches cfgmgr      *)
(* implements a configuration that is replaced at once (cfgmgr.lua:33-98), *)
(* in all keys but the band list that upload() sets in memory alone: while *)
(* the file is away, between its two renames, what is stored is the file   *)
(* moved away.                                                             *)
OrNone(c) == IF c \in Config THEN Unbanded(c) ELSE NoCfg
Store == INSTANCE ConfigStore WITH
             Configs <- {Unbanded(c) : c \in Config},
             Default <- Unbanded(Default), None <- NoCfg,
             stored <- OrNone(IF sav = "in" THEN del ELSE file),
             mem <- OrNone(IF Handling THEN cfg ELSE NoCfg),
             saving <- OrNone(IF sav \in {"tmp", "away", "in", "clean"} THEN cfg ELSE NoCfg),
             unsynced <- data = "cache"
ImplementsStore == Store!Spec

(* Whatever the file holds after kills, power cuts and touches, cfgmgr     *)
(* gets a configuration it can run with (cfgmgr.lua:101-140).              *)
Recovers == pc = "down" ~> pc = "run"

(* cfgmgr.lua:73, "save the configuration: to a temporary file first, then *)
(* rename it": cfgmgr does not fall back to the defaults while the         *)
(* configuration it had is still on disk.                                  *)
DefaultsOnlyIfLost ==
    pc = "cp" /\ file = NoFile => del \in {NoFile, Bad, Old, Default}
=============================================================================
