---------------------------- MODULE MCServices ----------------------------
(***************************************************************************)
(* The document library with setup, and the settings cache, share no state *)
(* and are checked one at a time: "part" says which, and the others rest.  *)
(* In "documents" the runs of setup are over; in "setup" all but one of    *)
(* the clients' documents have been deleted and the searches are done.     *)
(***************************************************************************)
EXTENDS SetupSequence, SettingsCache

CONSTANTS d1, q1

VARIABLE part

DocumentsInit ==
    /\ part \in {"documents", "settings"}
    /\ at = [s \in Setup |-> "over"]
    /\ tables = TRUE /\ custom = MaxRoles
    /\ call = [c \in Callers |-> "idle"]
    /\ refuses \in IF part = "settings" THEN {FALSE} ELSE BOOLEAN
    /\ doc = [d \in Docs |-> Unused] /\ bare = {}

PartSetupInit ==
    /\ part = "setup"
    /\ at = [s \in Setup |-> "idle"]
    /\ tables = FALSE /\ custom = 0
    /\ call = [c \in Callers |-> IF c = q1 THEN "ok" ELSE "idle"]
    /\ refuses = TRUE
    /\ doc = [d \in Docs |-> IF d \in Upload \ {d1} THEN Deleted ELSE Unused]
    /\ bare = Upload \ {d1}

MCInit ==
    /\ DocumentsInit \/ PartSetupInit
    /\ asymmetric = FALSE /\ met = {} /\ chunks = {}
    /\ ingest = [d \in Upload |-> "none"] /\ fate = [d \in Upload |-> "none"]
    /\ copy = [d \in Upload |-> NoCopy]
    /\ personas = 0 /\ templates = 0 /\ op = "none"
    /\ found = [s \in Setup |-> 0] /\ todo = [s \in Setup |-> {}]
    /\ aim = [s \in Setup |-> NoAim] /\ plan = [s \in Setup |-> NoPlan]
    /\ overlapped = FALSE /\ restarts = 0
    /\ CacheInit

\* The properties that count roles say nothing once two runs have overlapped, so
\* none is created from then on.
MCNext ==
    \/ /\ part # "settings"
       /\ SetupNext /\ (overlapped => custom' = custom)
       /\ UNCHANGED <<part, cacheVars>>
    \/ part = "settings" /\ CacheNext /\ UNCHANGED <<part, vars>>

MCVars == <<part, vars, cacheVars>>

MCSpec == MCInit /\ [][MCNext]_MCVars /\ WF_MCVars(part # "settings" /\ Work /\ UNCHANGED <<part, cacheVars>>)
=============================================================================
