---------------------------- MODULE ConfigStore ----------------------------
(***************************************************************************)
(* What the configuration manager promises: a configuration that is        *)
(* replaced at once.  A handler works with what is stored; what it asks to *)
(* be stored is there or not yet, never in part.  A process that ends      *)
(* between handlers costs nothing, and neither does a power cut once what  *)
(* was stored is on flash.  A failure before that leaves the old or the    *)
(* new configuration, or none, and only a store that holds none is given   *)
(* the defaults.                                                           *)
(***************************************************************************)
CONSTANTS Configs, Default, None

VARIABLES
    stored,  \* the configuration a start finds, or None
    mem,     \* the one handlers work with, None unless a handler may begin
    saving,  \* the one being stored, None if nothing is
    unsynced \* what is stored is not on flash yet

svars == <<stored, mem, saving, unsynced>>

Init ==
    /\ stored \in {None, Default} /\ mem = None /\ saving = None
    /\ unsynced = FALSE

Open ==
    /\ mem = None /\ saving = None /\ stored # None
    /\ mem' = stored
    /\ UNCHANGED <<stored, saving, unsynced>>

(* a handler changes nothing or ends the process *)
Close ==
    /\ mem # None
    /\ mem' = None
    /\ UNCHANGED <<stored, saving, unsynced>>

Begin(c) ==
    /\ mem # None
    /\ mem' = None /\ saving' = c
    /\ UNCHANGED <<stored, unsynced>>

Replace ==
    /\ saving # None
    /\ stored' = saving /\ unsynced' = TRUE
    /\ UNCHANGED <<mem, saving>>

Finish ==
    /\ saving # None /\ stored = saving
    /\ saving' = None
    /\ UNCHANGED <<stored, mem, unsynced>>

Restore ==
    /\ stored = None /\ mem = None /\ saving = None
    /\ stored' = Default /\ saving' = Default /\ unsynced' = TRUE
    /\ UNCHANGED mem

Sync == unsynced /\ unsynced' = FALSE /\ UNCHANGED <<stored, mem, saving>>

(* the process ends: at most what it was replacing is lost *)
Kill ==
    /\ mem' = None /\ saving' = None
    /\ \/ UNCHANGED <<stored, unsynced>>
       \/ saving # None /\ stored' = None /\ unsynced' = FALSE

(* so does the device: what is not on flash may be lost as well *)
PowerCut ==
    /\ mem' = None /\ saving' = None /\ unsynced' = FALSE
    /\ stored' \in IF saving # None \/ unsynced THEN {stored, None} ELSE {stored}

(* the user asks for a device as it was delivered *)
Reset ==
    /\ mem # None
    /\ mem' = None /\ stored' = None /\ unsynced' = FALSE
    /\ UNCHANGED saving

Next ==
    \/ Open \/ Close \/ (\E c \in Configs : Begin(c))
    \/ Replace \/ Sync \/ Finish \/ Restore
    \/ Kill \/ PowerCut \/ Reset

Spec == Init /\ [][Next]_svars
=============================================================================
