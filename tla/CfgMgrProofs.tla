---------------------------- MODULE CfgMgrProofs ----------------------------
(***************************************************************************)
(* Proofs about CfgMgr, for any WLANs, any number of faults and any clock. *)
(* Between handlers memory and file agree but for the band list; during a  *)
(* save the new content is first in cfg, then in cfg and the temporary     *)
(* file, then in cfg and the file: Phases follows it through save_config.  Watched      *)
(* adds that every time in use so far is in the history while no time came *)
(* twice, so that a new version cannot carry a time a watcher has kept.    *)
(* At the end, the steps are mapped to those of ConfigStore.               *)
(***************************************************************************)
EXTENDS CfgMgr, TLAPS

(* Where the configuration is at each step of load and save_config. *)
Phases ==
    /\ pc = "parse" => sav = "no" /\ file # NoFile
    /\ pc = "run" => cfg \in Config
    /\ pc = "run" /\ sav \in {"no", "done"} => Agree
    /\ pc = "down" => sav = "no"
    /\ pc = "cp" /\ sav = "no" => file \in {NoFile, Bad}
    /\ pc = "cp" /\ sav # "no" => after = "parse"
    /\ sav # "no" => cfg \in Config /\ (after = "parse" => pc = "cp")
    /\ sav \in {"tmp", "away"} => file \in Config
    /\ sav = "in" => del \in Config /\ file \in {NoFile, Bad}
    /\ sav \in {"away", "in"} => tmp = cfg
    /\ sav = "clean" => file = cfg
    /\ pc = "cp" /\ sav = "done" => file = cfg
    /\ data = "cache" => file \in Config

(* No configuration anywhere has keys of a WLAN it does not list. *)
Clean ==
    /\ NoOrphans
    /\ tmp \in Config => tmp.wl \subseteq tmp.ids

(* What the times say while none came twice. *)
Watched ==
    ~clash =>
        /\ ftime \in used
        /\ wlast # NoTime => wlast \in used
        /\ wpc = "idle" /\ file \in Config /\ wlast = ftime => applied = file

(* A configuration stays one when its keys are set. *)
LEMMA ConfigRecords ==
    /\ Default \in Config
    /\ \A c \in Config, b \in 0..MaxBase : [c EXCEPT !.base = b] \in Config
    /\ \A c \in Config : [c EXCEPT !.wl = {}] \in Config /\ [c EXCEPT !.barr = "own"] \in Config
    /\ \A a, w \in SUBSET Wlans, r \in AcBands, b \in 0..MaxBase :
           [ids |-> a, wl |-> w, barr |-> r, base |-> b] \in Config
  BY CfgAssumption DEF Config, Default, Bands

(* What upload() does to the table: nothing but the band list changes. *)
LEMMA BandsSet ==
    ASSUME NEW c \in Config
    PROVE  LET d == [c EXCEPT !.barr = "own"]
           IN  /\ d \in Config /\ d.ids = c.ids /\ d.wl = c.wl /\ d.barr = "own"
               /\ Unbanded(d) = Unbanded(c)
               /\ d # c => c.barr # "own"
  BY DEF Config, Bands, Unbanded

(* A version of ap_config.json, and its time, are put in place. *)
LEMMA InstallType ==
    ASSUME TypeOK, NEW c \in Content, NEW t \in Seconds, Install(c, t)
    PROVE  file' = c /\ ftime' = t /\ used' \subseteq Seconds /\ clash' \in BOOLEAN
<1>1. clash' \in BOOLEAN
  BY ZenonT(20) DEF Install, TypeOK
<1>2. used' \subseteq Seconds
  BY DEF Install, TypeOK
<1> QED BY <1>1, <1>2 DEF Install

(* Every step keeps the types, given where the configuration is. *)
LEMMA TypeStep == TypeOK /\ Phases /\ [Next]_vars => TypeOK'
<1> SUFFICES ASSUME TypeOK /\ Phases, [Next]_vars PROVE TypeOK'
  OBVIOUS
<1>1. CASE Start
  BY <1>1, CfgAssumption DEF Start, files, watcher, TypeOK, Phases, Content, Seconds
<1>2. CASE CpOpen
  BY <1>2, InstallType, CfgAssumption DEF CpOpen, proc, watcher, TypeOK, Phases, Content,
     Seconds
<1>3. CASE CpDone
  BY <1>3, CfgAssumption, ConfigRecords DEF CpDone, Install, watcher, TypeOK, Phases,
     Content, Seconds
<1>4. CASE Load
  BY <1>4, CfgAssumption DEF Load, Parse, Exit, watcher, TypeOK, Phases, Content, Seconds
<1>5. ASSUME NEW ids \in SUBSET Wlans, NEW barr \in AcBands, NEW base \in 0..MaxBase,
             Update(ids, barr, base)
      PROVE  TypeOK'
  BY <1>5, CfgAssumption, ConfigRecords DEF Update, Commit, Handling, files, watcher,
     TypeOK, Phases, Content, Seconds, Config
<1>6. ASSUME NEW ids \in SUBSET Wlans, NEW barr \in AcBands, NEW base \in 0..MaxBase,
             Replace(ids, barr, base)
      PROVE  TypeOK'
  BY <1>6, CfgAssumption, ConfigRecords DEF Replace, Commit, Handling, files, watcher,
     TypeOK, Phases, Content, Seconds
<1>7. ASSUME NEW base \in 0..MaxBase, ApSetConfig(base) PROVE TypeOK'
  BY <1>7, CfgAssumption, ConfigRecords DEF ApSetConfig, Commit, Handling, files, watcher,
     TypeOK, Phases, Content, Seconds
<1>8. CASE CmdDelete
  BY <1>8, CfgAssumption DEF CmdDelete, Exit, Handling, files, watcher, TypeOK, Phases,
     Content, Seconds
<1>9. CASE Registered
  BY <1>9, CfgAssumption, BandsSet DEF Registered, Handling, files, watcher, TypeOK, Phases,
     Content, Seconds
<1>10. CASE Uploaded
  <2>1. cfg \in Config /\ cfg' = [cfg EXCEPT !.wl = {}]
    BY <1>10 DEF Uploaded, Commit, Handling, Phases
  <2>2. cfg' \in Config
    BY <2>1, ConfigRecords
  <2> QED BY <1>10, <2>2 DEF Uploaded, Commit, Handling, files, watcher, TypeOK
<1>11. CASE UploadFails
  BY <1>11, CfgAssumption DEF UploadFails, Exit, Handling, files, watcher, TypeOK, Phases,
     Content, Seconds
<1>12. CASE Reload
  BY <1>12, CfgAssumption DEF Reload, Parse, Exit, watcher, TypeOK, Phases, Content,
     Seconds
<1>13. CASE SaveTmp
  BY <1>13, CfgAssumption DEF SaveTmp, watcher, TypeOK, Phases, Content, Seconds
<1>14. CASE SaveAway
  BY <1>14, CfgAssumption DEF SaveAway, watcher, TypeOK, Phases, Content, Seconds
<1>15. CASE SaveIn
  BY <1>15, InstallType, CfgAssumption DEF SaveIn, watcher, TypeOK, Phases, Content,
     Seconds
<1>16. CASE SaveClean
  BY <1>16, CfgAssumption DEF SaveClean, watcher, TypeOK, Phases, Content, Seconds
<1>17. CASE SaveDone
  BY <1>17, CfgAssumption DEF SaveDone, Exit, files, watcher, TypeOK, Phases, Content,
     Seconds
<1>18. CASE Kill
  BY <1>18, CfgAssumption DEF Kill, Exit, files, watcher, TypeOK, Phases, Content, Seconds
<1>19. CASE PowerCut
  BY <1>19, CfgAssumption DEF PowerCut, Exit, TypeOK, Phases, Content, Seconds
<1>20. CASE ApReset
  BY <1>20, CfgAssumption DEF ApReset, Exit, Handling, TypeOK, Phases, Content, Seconds
<1>21. CASE Touch
  BY <1>21, InstallType, CfgAssumption DEF Touch, proc, watcher, TypeOK, Phases, Content,
     Seconds
<1>22. CASE WStart
  BY <1>22, CfgAssumption DEF WStart, files, proc, TypeOK, Phases, Content, Seconds
<1>23. CASE WCheck
  BY <1>23, CfgAssumption DEF WCheck, files, proc, TypeOK, Phases, Content, Seconds
<1>24. CASE WRead
  BY <1>24, CfgAssumption DEF WRead, files, proc, TypeOK, Phases, Content, Seconds
<1>25. CASE Tick
  BY <1>25, CfgAssumption DEF Tick, files, proc, watcher, TypeOK, Phases, Content, Seconds
<1>26. CASE UNCHANGED vars
  BY <1>26 DEF vars, files, proc, watcher, TypeOK, Phases, Content, Seconds
<1>27. CASE Writeback
  BY <1>27, CfgAssumption DEF Writeback, proc, watcher, TypeOK, Phases, Content, Seconds
<1> QED BY <1>1, <1>2, <1>3, <1>4, <1>5, <1>6, <1>7, <1>8, <1>9, <1>10, <1>11, <1>12,
   <1>13, <1>14, <1>15, <1>16, <1>17, <1>18, <1>19, <1>20, <1>21, <1>22, <1>23, <1>24,
   <1>25, <1>26, <1>27
       DEF Next, Begin, Handle, Save, Fault, Watch

(* Every step keeps the configuration where Phases says. *)
LEMMA PhaseStep == TypeOK /\ Phases /\ [Next]_vars => Phases'
<1> SUFFICES ASSUME TypeOK /\ Phases, [Next]_vars PROVE Phases'
  OBVIOUS
<1>1. CASE Start
  BY <1>1, CfgAssumption DEF Start, files, watcher, TypeOK, Phases, Agree, Content
<1>2. CASE CpOpen
  BY <1>2, CfgAssumption DEF CpOpen, Install, proc, watcher, TypeOK, Phases, Agree, Content
<1>3. CASE CpDone
  BY <1>3, CfgAssumption, ConfigRecords DEF CpDone, Install, watcher, TypeOK, Phases, Agree,
     Content
<1>4. CASE Load
  BY <1>4, CfgAssumption DEF Load, Parse, Exit, watcher, TypeOK, Phases, Agree, Content
<1>5. ASSUME NEW ids \in SUBSET Wlans, NEW barr \in AcBands, NEW base \in 0..MaxBase,
             Update(ids, barr, base)
      PROVE  Phases'
  BY <1>5, CfgAssumption, ConfigRecords DEF Update, Commit, Changed, Handling, files,
     watcher,
     TypeOK, Phases, Agree, Content, Config
<1>6. ASSUME NEW ids \in SUBSET Wlans, NEW barr \in AcBands, NEW base \in 0..MaxBase,
             Replace(ids, barr, base)
      PROVE  Phases'
  BY <1>6, CfgAssumption, ConfigRecords DEF Replace, Commit, Changed, Handling, files,
     watcher,
     TypeOK, Phases, Agree, Content
<1>7. ASSUME NEW base \in 0..MaxBase, ApSetConfig(base) PROVE Phases'
  BY <1>7, CfgAssumption, ConfigRecords DEF ApSetConfig, Commit, Changed, Handling, files,
     watcher,
     TypeOK, Phases, Agree, Content
<1>8. CASE CmdDelete
  BY <1>8, CfgAssumption DEF CmdDelete, Exit, Handling, files, watcher, TypeOK, Phases, Agree,
     Content
<1>9. CASE Registered
  BY <1>9, CfgAssumption, BandsSet DEF Registered, Handling, files, watcher, TypeOK,
     Phases, Agree, Content
<1>10. CASE Uploaded
  BY <1>10, CfgAssumption, ConfigRecords DEF Uploaded, Commit, Changed, Handling, files,
     watcher,
     TypeOK, Phases, Agree, Content
<1>11. CASE UploadFails
  BY <1>11, CfgAssumption DEF UploadFails, Exit, Handling, files, watcher, TypeOK, Phases, Agree,
     Content
<1>12. CASE Reload
  BY <1>12, CfgAssumption DEF Reload, Parse, Exit, watcher, TypeOK, Phases, Agree, Content
<1>13. CASE SaveTmp
  BY <1>13, CfgAssumption DEF SaveTmp, watcher, TypeOK, Phases, Agree, Content
<1>14. CASE SaveAway
  BY <1>14, CfgAssumption DEF SaveAway, watcher, TypeOK, Phases, Agree, Content
<1>15. CASE SaveIn
  BY <1>15, CfgAssumption DEF SaveIn, Install, watcher, TypeOK, Phases, Agree, Content
<1>16. CASE SaveClean
  BY <1>16, CfgAssumption DEF SaveClean, watcher, TypeOK, Phases, Agree, Content
<1>17. CASE SaveDone
  BY <1>17, CfgAssumption DEF SaveDone, Exit, files, watcher, TypeOK, Phases, Agree, Content
<1>18. CASE Kill
  BY <1>18, CfgAssumption DEF Kill, Exit, files, watcher, TypeOK, Phases, Agree, Content
<1>19. CASE PowerCut
  BY <1>19, CfgAssumption DEF PowerCut, Exit, TypeOK, Phases, Agree, Content
<1>20. CASE ApReset
  BY <1>20, CfgAssumption DEF ApReset, Exit, Handling, TypeOK, Phases, Agree, Content
<1>21. CASE Touch
  BY <1>21, CfgAssumption DEF Touch, Install, proc, watcher, TypeOK, Phases, Agree, Content
<1>22. CASE WStart
  BY <1>22, CfgAssumption DEF WStart, files, proc, TypeOK, Phases, Agree, Content
<1>23. CASE WCheck
  BY <1>23, CfgAssumption DEF WCheck, files, proc, TypeOK, Phases, Agree, Content
<1>24. CASE WRead
  BY <1>24, CfgAssumption DEF WRead, files, proc, TypeOK, Phases, Agree, Content
<1>25. CASE Tick
  BY <1>25, CfgAssumption DEF Tick, files, proc, watcher, TypeOK, Phases, Agree, Content
<1>26. CASE UNCHANGED vars
  BY <1>26 DEF vars, files, proc, watcher, TypeOK, Phases, Agree, Content
<1>27. CASE Writeback
  BY <1>27, CfgAssumption DEF Writeback, proc, watcher, TypeOK, Phases, Agree, Content
<1> QED BY <1>1, <1>2, <1>3, <1>4, <1>5, <1>6, <1>7, <1>8, <1>9, <1>10, <1>11, <1>12,
   <1>13, <1>14, <1>15, <1>16, <1>17, <1>18, <1>19, <1>20, <1>21, <1>22, <1>23, <1>24,
   <1>25, <1>26, <1>27
       DEF Next, Begin, Handle, Save, Fault, Watch

(* No step leaves keys of an unlisted WLAN. *)
LEMMA CleanStep == TypeOK /\ Phases /\ Clean /\ [Next]_vars => Clean'
<1> SUFFICES ASSUME TypeOK /\ Phases /\ Clean, [Next]_vars PROVE Clean'
  OBVIOUS
<1>1. CASE Start
  BY <1>1, CfgAssumption DEF Start, files, watcher, TypeOK, Phases, Clean, NoOrphans,
     Content
<1>2. CASE CpOpen
  BY <1>2, CfgAssumption DEF CpOpen, Install, proc, watcher, TypeOK, Phases, Clean,
     NoOrphans, Content
<1>3. CASE CpDone
  BY <1>3, CfgAssumption, ConfigRecords DEF CpDone, Install, watcher, TypeOK, Phases,
     Clean, NoOrphans, Content, Default
<1>4. CASE Load
  BY <1>4, CfgAssumption DEF Load, Parse, Exit, watcher, TypeOK, Phases, Clean, NoOrphans,
     Content
<1>5. ASSUME NEW ids \in SUBSET Wlans, NEW barr \in AcBands, NEW base \in 0..MaxBase,
             Update(ids, barr, base)
      PROVE  Clean'
  BY <1>5, CfgAssumption, ConfigRecords DEF Update, Commit, Handling, files, watcher,
     TypeOK, Phases, Clean, NoOrphans, Content, Config
<1>6. ASSUME NEW ids \in SUBSET Wlans, NEW barr \in AcBands, NEW base \in 0..MaxBase,
             Replace(ids, barr, base)
      PROVE  Clean'
  BY <1>6, CfgAssumption, ConfigRecords DEF Replace, Commit, Handling, files, watcher,
     TypeOK, Phases, Clean, NoOrphans, Content
<1>7. ASSUME NEW base \in 0..MaxBase, ApSetConfig(base) PROVE Clean'
  BY <1>7, CfgAssumption, ConfigRecords DEF ApSetConfig, Commit, Handling, files, watcher,
     TypeOK, Phases, Clean, NoOrphans, Content, Config
<1>8. CASE CmdDelete
  BY <1>8, CfgAssumption DEF CmdDelete, Exit, Handling, files, watcher, TypeOK, Phases,
     Clean, NoOrphans, Content
<1>9. CASE Registered
  BY <1>9, CfgAssumption, BandsSet DEF Registered, Handling, files, watcher, TypeOK, Phases, Clean,
     NoOrphans, Content
<1>10. CASE Uploaded
  BY <1>10, CfgAssumption, ConfigRecords DEF Uploaded, Commit, Handling, files, watcher,
     TypeOK, Phases, Clean, NoOrphans, Content, Config
<1>11. CASE UploadFails
  BY <1>11, CfgAssumption DEF UploadFails, Exit, Handling, files, watcher, TypeOK, Phases,
     Clean, NoOrphans, Content
<1>12. CASE Reload
  BY <1>12, CfgAssumption DEF Reload, Parse, Exit, watcher, TypeOK, Phases, Clean,
     NoOrphans, Content
<1>13. CASE SaveTmp
  BY <1>13, CfgAssumption DEF SaveTmp, watcher, TypeOK, Phases, Clean, NoOrphans, Content
<1>14. CASE SaveAway
  BY <1>14, CfgAssumption DEF SaveAway, watcher, TypeOK, Phases, Clean, NoOrphans, Content
<1>15. CASE SaveIn
  BY <1>15, CfgAssumption DEF SaveIn, Install, watcher, TypeOK, Phases, Clean, NoOrphans,
     Content
<1>16. CASE SaveClean
  BY <1>16, CfgAssumption DEF SaveClean, watcher, TypeOK, Phases, Clean, NoOrphans,
     Content
<1>17. CASE SaveDone
  BY <1>17, CfgAssumption DEF SaveDone, Exit, files, watcher, TypeOK, Phases, Clean,
     NoOrphans, Content
<1>18. CASE Kill
  BY <1>18, CfgAssumption DEF Kill, Exit, files, watcher, TypeOK, Phases, Clean,
     NoOrphans, Content
<1>19. CASE PowerCut
  BY <1>19, CfgAssumption DEF PowerCut, Exit, TypeOK, Phases, Clean, NoOrphans, Content
<1>20. CASE ApReset
  BY <1>20, CfgAssumption DEF ApReset, Exit, Handling, TypeOK, Phases, Clean, NoOrphans,
     Content
<1>21. CASE Touch
  BY <1>21, CfgAssumption DEF Touch, Install, proc, watcher, TypeOK, Phases, Clean,
     NoOrphans, Content
<1>22. CASE WStart
  BY <1>22, CfgAssumption DEF WStart, files, proc, TypeOK, Phases, Clean, NoOrphans,
     Content
<1>23. CASE WCheck
  BY <1>23, CfgAssumption DEF WCheck, files, proc, TypeOK, Phases, Clean, NoOrphans,
     Content
<1>24. CASE WRead
  BY <1>24, CfgAssumption DEF WRead, files, proc, TypeOK, Phases, Clean, NoOrphans,
     Content
<1>25. CASE Tick
  BY <1>25, CfgAssumption DEF Tick, files, proc, watcher, TypeOK, Phases, Clean,
     NoOrphans, Content
<1>26. CASE UNCHANGED vars
  BY <1>26 DEF vars, files, proc, watcher, TypeOK, Phases, Clean, NoOrphans, Content
<1>27. CASE Writeback
  BY <1>27, CfgAssumption DEF Writeback, proc, watcher, TypeOK, Phases, Clean, NoOrphans, Content
<1> QED BY <1>1, <1>2, <1>3, <1>4, <1>5, <1>6, <1>7, <1>8, <1>9, <1>10, <1>11, <1>12,
   <1>13, <1>14, <1>15, <1>16, <1>17, <1>18, <1>19, <1>20, <1>21, <1>22, <1>23, <1>24,
   <1>25, <1>26, <1>27
       DEF Next, Begin, Handle, Save, Fault, Watch

(* No step hands out a time again without noting it. *)
LEMMA WatchStep == TypeOK /\ Phases /\ Watched /\ [Next]_vars => Watched'
<1> SUFFICES ASSUME TypeOK /\ Phases /\ Watched, [Next]_vars PROVE Watched'
  OBVIOUS
<1>1. CASE Start
  BY <1>1, CfgAssumption DEF Start, files, watcher, TypeOK, Phases, Watched, Content
<1>2. CASE CpOpen
  BY <1>2, CfgAssumption DEF CpOpen, Install, proc, watcher, TypeOK, Phases, Watched,
     Content
<1>3. CASE CpDone
  BY <1>3, CfgAssumption DEF CpDone, Install, watcher, TypeOK, Phases, Watched, Content
<1>4. CASE Load
  BY <1>4, CfgAssumption DEF Load, Parse, Exit, watcher, TypeOK, Phases, Watched, Content
<1>5. ASSUME NEW ids \in SUBSET Wlans, NEW barr \in AcBands, NEW base \in 0..MaxBase,
             Update(ids, barr, base)
      PROVE  Watched'
  BY <1>5, CfgAssumption DEF Update, Commit, Handling, files, watcher, TypeOK, Phases,
     Watched, Content
<1>6. ASSUME NEW ids \in SUBSET Wlans, NEW barr \in AcBands, NEW base \in 0..MaxBase,
             Replace(ids, barr, base)
      PROVE  Watched'
  BY <1>6, CfgAssumption DEF Replace, Commit, Handling, files, watcher, TypeOK, Phases,
     Watched, Content
<1>7. ASSUME NEW base \in 0..MaxBase, ApSetConfig(base) PROVE Watched'
  BY <1>7, CfgAssumption DEF ApSetConfig, Commit, Handling, files, watcher, TypeOK,
     Phases, Watched, Content
<1>8. CASE CmdDelete
  BY <1>8, CfgAssumption DEF CmdDelete, Exit, Handling, files, watcher, TypeOK, Phases,
     Watched, Content
<1>9. CASE Registered
  BY <1>9, CfgAssumption, BandsSet DEF Registered, Handling, files, watcher, TypeOK, Phases,
     Watched, Content
<1>10. CASE Uploaded
  BY <1>10, CfgAssumption DEF Uploaded, Commit, Handling, files, watcher, TypeOK, Phases,
     Watched, Content
<1>11. CASE UploadFails
  BY <1>11, CfgAssumption DEF UploadFails, Exit, Handling, files, watcher, TypeOK, Phases,
     Watched, Content
<1>12. CASE Reload
  BY <1>12, CfgAssumption DEF Reload, Parse, Exit, watcher, TypeOK, Phases, Watched,
     Content
<1>13. CASE SaveTmp
  BY <1>13, CfgAssumption DEF SaveTmp, watcher, TypeOK, Phases, Watched, Content
<1>14. CASE SaveAway
  BY <1>14, CfgAssumption DEF SaveAway, watcher, TypeOK, Phases, Watched, Content
<1>15. CASE SaveIn
  BY <1>15, CfgAssumption DEF SaveIn, Install, watcher, TypeOK, Phases, Watched, Content
<1>16. CASE SaveClean
  BY <1>16, CfgAssumption DEF SaveClean, watcher, TypeOK, Phases, Watched, Content
<1>17. CASE SaveDone
  BY <1>17, CfgAssumption DEF SaveDone, Exit, files, watcher, TypeOK, Phases, Watched,
     Content
<1>18. CASE Kill
  BY <1>18, CfgAssumption DEF Kill, Exit, files, watcher, TypeOK, Phases, Watched, Content
<1>19. CASE PowerCut
  BY <1>19, CfgAssumption DEF PowerCut, Exit, TypeOK, Phases, Watched, Content
<1>20. CASE ApReset
  BY <1>20, CfgAssumption DEF ApReset, Exit, Handling, TypeOK, Phases, Watched, Content
<1>21. CASE Touch
  BY <1>21, CfgAssumption DEF Touch, Install, proc, watcher, TypeOK, Phases, Watched,
     Content
<1>22. CASE WStart
  BY <1>22, CfgAssumption DEF WStart, files, proc, TypeOK, Phases, Watched, Content
<1>23. CASE WCheck
  BY <1>23, CfgAssumption DEF WCheck, files, proc, TypeOK, Phases, Watched, Content
<1>24. CASE WRead
  BY <1>24, CfgAssumption DEF WRead, files, proc, TypeOK, Phases, Watched, Content
<1>25. CASE Tick
  BY <1>25, CfgAssumption DEF Tick, files, proc, watcher, TypeOK, Phases, Watched, Content
<1>26. CASE UNCHANGED vars
  BY <1>26 DEF vars, files, proc, watcher, TypeOK, Phases, Watched, Content
<1>27. CASE Writeback
  BY <1>27, CfgAssumption DEF Writeback, proc, watcher, TypeOK, Phases, Watched, Content
<1> QED BY <1>1, <1>2, <1>3, <1>4, <1>5, <1>6, <1>7, <1>8, <1>9, <1>10, <1>11, <1>12,
   <1>13, <1>14, <1>15, <1>16, <1>17, <1>18, <1>19, <1>20, <1>21, <1>22, <1>23, <1>24,
   <1>25, <1>26, <1>27
       DEF Next, Begin, Handle, Save, Fault, Watch

IInv == TypeOK /\ Phases /\ Clean /\ Watched

(* The invariant holds in every state of every behaviour of cfgmgr, base   *)
(* and setconf, whatever is killed when.                                   *)
THEOREM Invariance == Spec => []IInv
<1>1. Init => IInv
  <2> SUFFICES ASSUME Init PROVE IInv
    OBVIOUS
  <2>1. TypeOK
    <3>1. clash \in BOOLEAN
      BY Zenon DEF Init
    <3>2. 0 \in Seconds /\ 1 \in Seconds /\ 0 \in 0..MaxFaults
      BY CfgAssumption DEF Seconds
    <3>3. file \in Content \cup {NoFile}
      BY ConfigRecords DEF Init, Content
    <3> QED BY <3>1, <3>2, <3>3 DEF Init, TypeOK
  <2>2. Phases /\ Watched
    BY CfgAssumption DEF Init, Phases, Watched, Seconds
  <2>3. Clean
    BY CfgAssumption DEF Init, Clean, NoOrphans, Content, Default
  <2> QED BY <2>1, <2>2, <2>3 DEF IInv
<1>2. IInv /\ [Next]_vars => IInv'
  BY TypeStep, PhaseStep, CleanStep, WatchStep DEF IInv
<1> QED BY <1>1, <1>2, PTL DEF Spec

(* The files and the table keep their shape; in particular the temporary   *)
(* file is whole whenever the second rename moves it into place.           *)
THEOREM TypeCorrect == Spec => []TypeOK
<1>1. IInv => TypeOK
  BY DEF IInv
<1> QED BY <1>1, Invariance, PTL

(* Between handlers what cfgmgr works with is what a restart would load,   *)
(* but for the band list, which may be upload()'s in memory and another in *)
(* the file until the next save.                                           *)
THEOREM MemoryIsFile == Spec => []MemoryMatchesFile
<1>1. IInv => MemoryMatchesFile
  BY DEF IInv, Phases, MemoryMatchesFile, Handling
<1> QED BY <1>1, Invariance, PTL

(* save_config never misses the file it moves away, so that its log.fatal  *)
(* after the rename is dead code.                                          *)
THEOREM SaveHasFile == Spec => []SaveFindsFile
<1>1. IInv => SaveFindsFile
  BY CfgAssumption DEF IInv, Phases, SaveFindsFile, Content
<1> QED BY <1>1, Invariance, PTL

(* Keys of deleted WLANs are never left in memory or in the file.          *)
THEOREM OrphanFree == Spec => []NoOrphans
<1>1. IInv => NoOrphans
  BY DEF IInv, Clean
<1> QED BY <1>1, Invariance, PTL

(* A process that compares modification times misses a configuration only  *)
(* if two versions carry the same second.                                  *)
THEOREM MissedOnlyOnClash == Spec => []StaleOnlyOnClash
<1>1. IInv => StaleOnlyOnClash
  BY DEF IInv, Watched, StaleOnlyOnClash
<1> QED BY <1>1, Invariance, PTL

-----------------------------------------------------------------------------
(* What the files and the table stand for in ConfigStore. *)
Stored == OrNone(IF sav = "in" THEN del ELSE file)
Mem == OrNone(IF Handling THEN cfg ELSE NoCfg)
Saving == OrNone(IF sav \in {"tmp", "away", "in", "clean"} THEN cfg ELSE NoCfg)

(* An operation on the files that only prepares or tidies up, or a step of *)
(* another process, does not touch them.                                   *)
Hidden == UNCHANGED <<Stored, Mem, Saving, data>>

(* The operations of ConfigStore in terms of these four. *)
DoOpen ==
    /\ Mem = NoCfg /\ Saving = NoCfg /\ Stored # NoCfg /\ Mem' = Stored
    /\ UNCHANGED <<Stored, Saving, data>>
DoClose == Mem # NoCfg /\ Mem' = NoCfg /\ UNCHANGED <<Stored, Saving, data>>
DoBegin(c) == Mem # NoCfg /\ Mem' = NoCfg /\ Saving' = c /\ UNCHANGED <<Stored, data>>
DoReplace == Saving # NoCfg /\ Stored' = Saving /\ data' = "cache" /\ UNCHANGED <<Mem, Saving>>
DoFinish ==
    /\ Saving # NoCfg /\ Stored = Saving /\ Saving' = NoCfg
    /\ UNCHANGED <<Stored, Mem, data>>
DoRestore ==
    /\ Stored = NoCfg /\ Mem = NoCfg /\ Saving = NoCfg
    /\ Stored' = Unbanded(Default) /\ Saving' = Unbanded(Default) /\ data' = "cache"
    /\ UNCHANGED Mem
DoSync == data = "cache" /\ data' = "flash" /\ UNCHANGED <<Stored, Mem, Saving>>
DoKill ==
    /\ Mem' = NoCfg /\ Saving' = NoCfg
    /\ \/ UNCHANGED <<Stored, data>>
       \/ Saving # NoCfg /\ Stored' = NoCfg /\ data' = "flash"
DoPowerCut ==
    /\ Mem' = NoCfg /\ Saving' = NoCfg /\ data' = "flash"
    /\ Stored' \in (IF Saving # NoCfg \/ data = "cache" THEN {Stored, NoCfg} ELSE {Stored})
DoReset ==
    /\ Mem # NoCfg /\ Mem' = NoCfg /\ Stored' = NoCfg /\ data' = "flash"
    /\ UNCHANGED Saving

LEMMA StoreActions ==
    /\ Hidden => UNCHANGED Store!svars
    /\ DoOpen \/ DoClose \/ DoReplace \/ DoFinish \/ DoRestore \/ DoSync => Store!Next
    /\ \A c \in Config : DoBegin(Unbanded(c)) => Store!Next
    /\ DoKill \/ DoPowerCut \/ DoReset => Store!Next
<1>1. Hidden => UNCHANGED Store!svars
  BY DEF Hidden, Stored, Mem, Saving, Store!svars
<1>2. DoOpen => Store!Next
  BY DEF DoOpen, Stored, Mem, Saving, Store!Next, Store!Open
<1>3. DoClose => Store!Next
  BY DEF DoClose, Stored, Mem, Saving, Store!Next, Store!Close
<1>4. DoReplace => Store!Next
  BY DEF DoReplace, Stored, Mem, Saving, Store!Next, Store!Replace
<1>5. DoFinish => Store!Next
  BY DEF DoFinish, Stored, Mem, Saving, Store!Next, Store!Finish
<1>6. DoRestore => Store!Next
  BY DEF DoRestore, Stored, Mem, Saving, Store!Next, Store!Restore
<1>7. DoSync => Store!Next
  BY DEF DoSync, Stored, Mem, Saving, Store!Next, Store!Sync
<1>8. ASSUME NEW c \in Config, DoBegin(Unbanded(c)) PROVE Store!Next
  BY <1>8 DEF DoBegin, Stored, Mem, Saving, Store!Next, Store!Begin
<1>9. DoKill => Store!Next
  BY DEF DoKill, Stored, Mem, Saving, Store!Next, Store!Kill
<1>10. DoPowerCut => Store!Next
  BY DEF DoPowerCut, Stored, Mem, Saving, Store!Next, Store!PowerCut
<1>11. DoReset => Store!Next
  BY DEF DoReset, Stored, Mem, Saving, Store!Next, Store!Reset
<1> QED BY <1>1, <1>2, <1>3, <1>4, <1>5, <1>6, <1>7, <1>8, <1>9, <1>10, <1>11

(* Every step is one of these operations or is hidden. *)
LEMMA StoreStep == IInv /\ [Next]_vars => [Store!Next]_Store!svars
<1> SUFFICES ASSUME TypeOK, Phases, [Next]_vars
             PROVE  Store!Next \/ UNCHANGED Store!svars
  BY DEF IInv
<1>0. /\ \A c \in Config : NoCfg # Unbanded(c)
      /\ NoCfg \notin Config /\ NoFile \notin Config /\ Default \in Config
      /\ Bad \notin Config /\ Old \notin Config
  BY CfgAssumption, ConfigRecords DEF Content, Unbanded
<1>1. CASE Start
  <2>1. Hidden
    BY <1>0, <1>1 DEF Start, files, Phases, Hidden, Stored, Mem, Saving, OrNone, Handling,
       TypeOK
  <2> QED BY <2>1, StoreActions
<1>2. CASE CpOpen
  <2>1. Hidden
    BY <1>0, <1>2 DEF CpOpen, Install, proc, Phases, Hidden, Stored, Mem, Saving, OrNone,
       Handling, TypeOK
  <2> QED BY <2>1, StoreActions
<1>3. CASE Registered
  <2>1. Hidden
    BY <1>0, <1>3, BandsSet DEF Registered, Phases, files, Hidden, Stored, Mem, Saving,
       OrNone, Handling, TypeOK
  <2> QED BY <2>1, StoreActions
<1>4. CASE SaveTmp
  <2>1. Hidden
    BY <1>0, <1>4 DEF SaveTmp, Hidden, Stored, Mem, Saving, OrNone, Handling, TypeOK
  <2> QED BY <2>1, StoreActions
<1>5. CASE SaveAway
  <2>1. Hidden \/ DoSync
    BY <1>0, <1>5 DEF SaveAway, Phases, Hidden, DoSync, Stored, Mem, Saving, OrNone, Handling,
       TypeOK
  <2> QED BY <2>1, StoreActions
<1>6. CASE Touch
  <2>1. Hidden
    BY <1>0, <1>6 DEF Touch, Install, proc, Content, Hidden, Stored, Mem, Saving, OrNone,
       Handling, TypeOK
  <2> QED BY <2>1, StoreActions
<1>7. CASE WStart
  <2>1. Hidden
    BY <1>0, <1>7 DEF WStart, files, proc, Hidden, Stored, Mem, Saving, OrNone, Handling,
       TypeOK
  <2> QED BY <2>1, StoreActions
<1>8. CASE WCheck
  <2>1. Hidden
    BY <1>0, <1>8 DEF WCheck, files, proc, Hidden, Stored, Mem, Saving, OrNone, Handling,
       TypeOK
  <2> QED BY <2>1, StoreActions
<1>9. CASE WRead
  <2>1. Hidden
    BY <1>0, <1>9 DEF WRead, files, proc, Hidden, Stored, Mem, Saving, OrNone, Handling,
       TypeOK
  <2> QED BY <2>1, StoreActions
<1>10. CASE Tick
  <2>1. Hidden
    BY <1>0, <1>10 DEF Tick, files, proc, Hidden, Stored, Mem, Saving, OrNone, Handling,
       TypeOK
  <2> QED BY <2>1, StoreActions
<1>11. CASE UNCHANGED vars
  <2>1. Hidden
    BY <1>0, <1>11 DEF vars, files, proc, Hidden, Stored, Mem, Saving, OrNone, Handling,
       TypeOK
  <2> QED BY <2>1, StoreActions
<1>12. CASE Load
  <2>1. \/ Hidden
        \/ DoOpen
    BY <1>0, <1>12 DEF DoOpen, Agree, Load, Parse, Exit, Hidden, Stored, Mem, Saving,
       OrNone, Handling, TypeOK, Phases
  <2> QED BY <2>1, StoreActions
<1>13. CASE Reload
  <2>1. Hidden
    BY <1>0, <1>13 DEF Agree, Reload, Parse, Exit, Hidden, Content, Stored, Mem, Saving, OrNone,
       Handling, TypeOK, Phases
  <2> QED BY <2>1, StoreActions
<1>14. CASE CpDone
  <2>1. DoRestore
    BY <1>0, <1>14 DEF DoRestore, CpDone, Install, Stored, Mem, Saving, OrNone, Handling, TypeOK,
       Phases
  <2> QED BY <2>1, StoreActions
<1>15. ASSUME NEW c \in Config, NEW then, Handling, Commit(c, then)
      PROVE  Store!Next
  <2>1. CASE Changed(c)
    <3>1. DoBegin(Unbanded(c))
      BY <1>0, <1>15, <2>1 DEF DoBegin, Commit, files, Stored, Mem, Saving, OrNone, Handling,
         TypeOK, Phases
    <3> QED BY <3>1, StoreActions
  <2>2. CASE ~Changed(c)
    <3>1. DoClose
      BY <1>0, <1>15, <2>2 DEF DoClose, Commit, files, Stored, Mem, Saving, OrNone, Handling,
         TypeOK, Phases
    <3> QED BY <3>1, StoreActions
  <2> QED BY <2>1, <2>2
<1>16. ASSUME NEW ids \in SUBSET Wlans, NEW barr \in AcBands, NEW base \in 0..MaxBase,
             Update(ids, barr, base)
      PROVE  Store!Next
  <2>1. cfg \in Config
    BY <1>16 DEF Update, Handling, Phases
  <2> QED BY <1>15, <1>16, <2>1, ConfigRecords DEF Update, Handling, Config
<1>17. ASSUME NEW ids \in SUBSET Wlans, NEW barr \in AcBands, NEW base \in 0..MaxBase,
             Replace(ids, barr, base)
      PROVE  Store!Next
  <2>1. cfg \in Config
    BY <1>17 DEF Replace, Handling, Phases
  <2> QED BY <1>15, <1>17, <2>1, ConfigRecords DEF Replace, Handling
<1>18. ASSUME NEW base \in 0..MaxBase, ApSetConfig(base)
      PROVE  Store!Next
  <2>1. cfg \in Config
    BY <1>18 DEF ApSetConfig, Handling, Phases
  <2> QED BY <1>15, <1>18, <2>1, ConfigRecords DEF ApSetConfig, Handling
<1>19. ASSUME Uploaded
      PROVE  Store!Next
  <2>1. cfg \in Config
    BY <1>19 DEF Uploaded, Handling, Phases
  <2> QED BY <1>15, <1>19, <2>1, ConfigRecords DEF Uploaded, Handling
<1>20. CASE SaveIn
  <2>1. DoReplace
    BY <1>0, <1>20 DEF DoReplace, SaveIn, Install, Stored, Mem, Saving, OrNone, Handling, TypeOK,
       Phases
  <2> QED BY <2>1, StoreActions
<1>21. CASE SaveClean
  <2>1. DoFinish
    BY <1>0, <1>21 DEF DoFinish, SaveClean, Stored, Mem, Saving, OrNone, Handling, TypeOK, Phases
  <2> QED BY <2>1, StoreActions
<1>22. CASE SaveDone
  <2>1. \/ Hidden
        \/ DoOpen
    BY <1>0, <1>22 DEF DoOpen, Agree, SaveDone, Exit, files, Hidden, Stored, Mem, Saving, OrNone,
       Handling, TypeOK, Phases
  <2> QED BY <2>1, StoreActions
<1>23. CASE CmdDelete \/ UploadFails
  <2>1. DoClose
    BY <1>0, <1>23 DEF DoClose, CmdDelete, UploadFails, Exit, files, Stored, Mem, Saving, OrNone,
       Handling, TypeOK, Phases
  <2> QED BY <2>1, StoreActions
<1>24. CASE Kill \/ PowerCut
  <2>1. CASE Kill
    <3>1. DoKill
      BY <1>0, <2>1 DEF Kill, DoKill, Exit, files, Stored, Mem, Saving, OrNone, Handling,
         TypeOK, Phases
    <3> QED BY <3>1, StoreActions
  <2>2. CASE PowerCut
    <3>1. DoPowerCut
      BY <1>0, <2>2 DEF PowerCut, DoPowerCut, Exit, Stored, Mem, Saving, OrNone, Handling,
         TypeOK, Phases
    <3> QED BY <3>1, StoreActions
  <2> QED BY <1>24, <2>1, <2>2
<1>25. CASE ApReset
  <2>1. DoReset
    BY <1>0, <1>25 DEF DoReset, ApReset, Exit, Stored, Mem, Saving, OrNone, Handling, TypeOK,
       Phases
  <2> QED BY <2>1, StoreActions
<1>26. CASE Writeback
  <2>1. DoSync
    BY <1>0, <1>26 DEF Writeback, proc, DoSync, Stored, Mem, Saving, OrNone, Handling
  <2> QED BY <2>1, StoreActions
<1> QED BY <1>1, <1>2, <1>3, <1>4, <1>5, <1>6, <1>7, <1>8, <1>9, <1>10, <1>11, <1>12,
   <1>13, <1>14, <1>15, <1>16, <1>17, <1>18, <1>19, <1>20, <1>21, <1>22, <1>23, <1>24,
   <1>25, <1>26
       DEF Next, Begin, Handle, Save, Fault, Watch

(* What cfgmgr does to its files, with any kills, power cuts and touches   *)
(* between them, is a configuration that is replaced at once in all keys   *)
(* but the band list: no kill outside a replacement costs it, no power cut *)
(* once it is written back, each start works with what the last one        *)
(* stored, and the defaults replace nothing but an empty store.            *)
THEOREM StoreImplemented == Spec => ImplementsStore
<1>1. Init => Store!Init
  BY CfgAssumption, ConfigRecords DEF Init, Store!Init, OrNone, Handling, Content
<1>2. IInv /\ [Next]_vars => [Store!Next]_Store!svars
  BY StoreStep
<1> QED BY <1>1, <1>2, Invariance, PTL DEF Spec, ImplementsStore, Store!Spec

-----------------------------------------------------------------------------
(* There are two ways to the defaults with the configuration still on      *)
(* flash: the process or the device ends between the two renames of        *)
(* save_config, or a power cut takes the data of the renamed file before   *)
(* it is written back.                                                     *)
CrashInRename == sav = "in" /\ sav' = "no"
DataLost == file \in Config /\ file' = Bad

(* A configuration moved away has been replaced, or is about to be; the    *)
(* defaults that restore_default copies are saved once more.               *)
Kept ==
    /\ del \in Config /\ sav # "in" => file \in Config
    /\ pc = "cp" /\ sav \in {"tmp", "away"} => file = Default
    /\ pc = "cp" /\ sav = "in" => del = Default

LEMMA KeptStep ==
    TypeOK /\ Phases /\ Kept /\ [Next]_vars /\ [~CrashInRename /\ ~DataLost]_vars => Kept'
<1> SUFFICES ASSUME TypeOK, Phases, Kept, [Next]_vars, [~CrashInRename /\ ~DataLost]_vars
             PROVE  Kept'
  OBVIOUS
<1> USE CfgAssumption DEF Kept, TypeOK, Phases, Content
<1>1. CASE Start
  BY <1>1 DEF Start, files
<1>2. CASE CpOpen
  BY <1>2 DEF CpOpen, Install, proc
<1>3. CASE CpDone
  BY <1>3, ConfigRecords DEF CpDone, Install
<1>4. CASE Load \/ Reload
  BY <1>4 DEF Load, Reload, Parse, Exit
<1>5. ASSUME NEW new, NEW then, Handling, Commit(new, then) PROVE Kept'
  BY <1>5 DEF Commit, Changed, Handling, files
<1>6. CASE Handle
  <2>1. ASSUME NEW ids \in SUBSET Wlans, NEW barr \in AcBands, NEW base \in 0..MaxBase,
               Update(ids, barr, base) \/ Replace(ids, barr, base)
        PROVE  Kept'
    BY <1>5, <2>1, Zenon DEF Update, Replace
  <2>2. ASSUME NEW base \in 0..MaxBase, ApSetConfig(base) PROVE Kept'
    BY <1>5, <2>2, Zenon DEF ApSetConfig
  <2>3. CASE Uploaded
    BY <1>5, <2>3, Zenon DEF Uploaded
  <2>4. CASE CmdDelete \/ UploadFails
    BY <2>4 DEF CmdDelete, UploadFails, Exit, Handling, files
  <2>5. CASE Registered
    BY <2>5 DEF Registered, Handling, files
  <2> QED BY <1>4, <1>6, <2>1, <2>2, <2>3, <2>4, <2>5 DEF Handle
<1>7. CASE SaveTmp
  BY <1>7 DEF SaveTmp
<1>8. CASE SaveAway
  BY <1>8 DEF SaveAway
<1>9. CASE SaveIn
  BY <1>9 DEF SaveIn, Install
<1>10. CASE SaveClean
  BY <1>10 DEF SaveClean
<1>11. CASE SaveDone
  BY <1>11 DEF SaveDone, Exit, files
<1>12. CASE Kill \/ PowerCut
  <2>1. pc' = "down" /\ sav' = "no" /\ del' = del /\ file' \in {file, Bad}
    BY <1>12 DEF Kill, PowerCut, Exit, files
  <2>2. sav # "in"
    BY <2>1, <1>12 DEF CrashInRename, vars, proc
  <2>3. file \in Config => file' = file
    BY <2>1 DEF DataLost, vars, files
  <2> QED BY <2>1, <2>2, <2>3
<1>13. CASE ApReset
  BY <1>13 DEF ApReset, Exit
<1>14. CASE Touch
  BY <1>14 DEF Touch, Install, proc
<1>15. CASE Watch \/ Tick
  BY <1>15 DEF Watch, WStart, WCheck, WRead, Tick, files, proc
<1>16. CASE UNCHANGED vars
  BY <1>16 DEF vars, files, proc
<1>17. CASE Writeback
  BY <1>17 DEF Writeback, proc
<1> QED BY <1>1, <1>2, <1>3, <1>4, <1>6, <1>7, <1>8, <1>9, <1>10, <1>11, <1>12, <1>13,
           <1>14, <1>15, <1>16, <1>17 DEF Next, Begin, Save, Fault

(* What cfgmgr.lua:73 says of its renames holds over any kills, power cuts *)
(* and touches but two: cfgmgr falls back to the defaults only if the      *)
(* configuration is lost, unless something ends it between the two renames *)
(* or takes the data of the new file, which nothing syncs.                 *)
THEOREM OnlyTheRenameLoses ==
    Spec /\ [][~CrashInRename /\ ~DataLost]_vars => []DefaultsOnlyIfLost
<1>1. Init => Kept
  BY CfgAssumption DEF Init, Kept, Content
<1>2. IInv /\ Kept => DefaultsOnlyIfLost
  <2> SUFFICES ASSUME IInv, Kept, pc = "cp", file = NoFile
               PROVE  del \in {NoFile, Bad, Old, Default}
    BY DEF DefaultsOnlyIfLost
  <2>1. CASE sav = "in"
    BY <2>1 DEF Kept
  <2>2. CASE sav # "in"
    BY <2>2, CfgAssumption DEF Kept, IInv, TypeOK, Content
  <2> QED BY <2>1, <2>2
<1>3. IInv => TypeOK /\ Phases
  BY DEF IInv
<1> QED BY <1>1, <1>2, <1>3, Invariance, KeptStep, PTL DEF Spec
=============================================================================
