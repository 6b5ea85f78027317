--------------------------- MODULE ServiceProcess ---------------------------
(***************************************************************************)
(* One process of app/main.py: its start-up (lifespan) and the thread that *)
(* reloads config.yaml while it serves (app/config_manager.py).            *)
(*                                                                         *)
(* The thread and whoever edits the file share nothing but the file: a     *)
(* step of the thread is one access to it.  A modification time is a       *)
(* number; an edit stamps the file with the time of the edit, or, when it  *)
(* puts a saved copy back, with a time of the past.                        *)
(***************************************************************************)
EXTENDS Integers

CONSTANTS
    Soft,      \* settings.startup_soft
    Locks,     \* settings.enable_distributed_locks
    MaxEdits   \* bound: edits of the file

\* What the constants are; a module that instantiates this one assumes it.
ServiceAssumption == Soft \in BOOLEAN /\ Locks \in BOOLEAN /\ MaxEdits \in Nat

VARIABLES
    pc,        \* where the process is, "watch" between two rounds of the thread
    degraded,  \* app.state.db_degraded
    lock,      \* the process has a DistributedLock
    file,      \* config.yaml: its last edit, what it is, and its st_mtime
    config,    \* ConfigManager._config: the edit it comes from, 0 for the defaults
    seen,      \* ConfigManager._mtime
    applied,   \* the edit whose values the pipeline and the cache have
    edits,     \* edits so far
    unseen     \* history: no st_mtime gives the last edit away

serviceVars == <<pc, degraded, lock, file, config, seen, applied, edits, unseen>>
managerVars == <<config, seen, applied>>
fileVars == <<file, edits, unseen>>

Kinds == {"good", "bad", "absent"}
Files == [edit: 0..MaxEdits, kind: Kinds, mtime: 1..(MaxEdits + 1)]

ServiceTypeOK ==
    /\ pc \in {"start", "database", "warm", "exists", "read", "stat", "apply",
               "watch", "failed"}
    /\ degraded \in BOOLEAN /\ lock \in BOOLEAN
    /\ file \in Files
    /\ config \in 0..MaxEdits /\ applied \in 0..MaxEdits /\ edits \in 0..MaxEdits
    /\ seen \in 0..(MaxEdits + 1)
    /\ unseen \in BOOLEAN

ServiceInit ==
    /\ pc = "start"
    /\ degraded = FALSE /\ lock = FALSE
    /\ file \in [edit: {0}, kind: Kinds, mtime: {1}]
    /\ config = 0 /\ seen = 0 /\ applied = 0
    /\ edits = 0 /\ unseen = FALSE

-----------------------------------------------------------------------------
(* lifespan *)

\* What fails ends the process unless it starts softly.
OnFailure(there) == IF Soft THEN there ELSE "failed"

\* validate_settings_for_production and the OpenTelemetry set-up.
Configure ==
    /\ pc = "start"
    /\ pc' \in {"database", OnFailure("database")}
    /\ UNCHANGED <<degraded, lock, managerVars, fileVars>>

\* init_db, the lock and the caches, within three seconds and one try: the time
\* or an error may end it before the lock or after.
InitDatabase ==
    /\ pc = "database"
    /\ \/ /\ pc' = "warm"
          /\ lock' = Locks
          /\ UNCHANGED degraded
       \/ /\ pc' = OnFailure("warm")
          /\ lock' \in {FALSE, Locks}
          /\ degraded' = Soft
    /\ UNCHANGED <<managerVars, fileVars>>

\* ml_model.warmup
WarmUp ==
    /\ pc = "warm"
    /\ pc' \in {"exists", OnFailure("exists")}
    /\ UNCHANGED <<degraded, lock, managerVars, fileVars>>

-----------------------------------------------------------------------------
(* ConfigManager *)

\* Whether it was read or not, lifespan and the watcher apply the configuration.
BugNotApplied == "watch"
AfterLoad == "apply"

\* load: is there a file?
FindFile ==
    /\ pc = "exists"
    /\ IF file.kind = "absent"
       THEN pc' = AfterLoad /\ seen' = 0
       ELSE pc' = "read" /\ seen' = seen
    /\ UNCHANGED <<degraded, lock, config, applied, fileVars>>

\* load: its content; if that is invalid, or the file is gone, all stays.
ReadFile ==
    /\ pc = "read"
    /\ IF file.kind = "good"
       THEN pc' = "stat" /\ config' = file.edit
       ELSE pc' = AfterLoad /\ config' = config
    /\ UNCHANGED <<degraded, lock, seen, applied, fileVars>>

\* load: its time, taken after the content.
StatFile ==
    /\ pc = "stat"
    /\ pc' = AfterLoad
    /\ seen' = IF file.kind = "absent" THEN seen ELSE file.mtime
    /\ UNCHANGED <<degraded, lock, config, applied, fileVars>>

\* apply: the callback sets the thresholds and replaces the cache.
Apply ==
    /\ pc = "apply"
    /\ pc' = "watch"
    /\ applied' = config
    /\ UNCHANGED <<degraded, lock, config, seen, fileVars>>

\* _watch, after each sleep: a file with a later time than the one seen is loaded.
Changed == file.kind # "absent" /\ file.mtime > seen

Watch ==
    /\ pc = "watch"
    /\ Changed
    /\ pc' = "exists"
    /\ UNCHANGED <<degraded, lock, managerVars, fileVars>>

ServiceStep ==
    \/ Configure \/ InitDatabase \/ WarmUp
    \/ FindFile \/ ReadFile \/ StatFile \/ Apply \/ Watch

-----------------------------------------------------------------------------
\* The file is written, spoilt, removed or put back.
Edit ==
    /\ edits < MaxEdits
    /\ edits' = edits + 1
    /\ file' \in [edit: {edits + 1}, kind: Kinds, mtime: 1..(edits + 2)]
    /\ unseen' = \/ pc = "stat"
                 \/ pc \in {"apply", "watch"} /\ file'.mtime <= seen
    /\ UNCHANGED <<pc, degraded, lock, managerVars>>

ServiceNext == ServiceStep \/ Edit

ServiceFairness == WF_serviceVars(ServiceStep)

ServiceSpec == ServiceInit /\ [][ServiceNext]_serviceVars /\ ServiceFairness

-----------------------------------------------------------------------------
\* A valid file that is left alone is in force in the end, whatever was written,
\* spoilt or removed before, during start-up or while the thread was reading --
\* unless its last edit fell between the reading of the content and of the time,
\* or is no younger than the time seen.
ConfigConverges ==
    <>[](file.kind = "good" /\ ~unseen) => <>[](applied = file.edit \/ pc = "failed")
=============================================================================
