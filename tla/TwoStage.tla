------------------------------- MODULE TwoStage -------------------------------
(***************************************************************************)
(* The two-stage pipeline of app/v2_two_stage_pipeline.py: a fast scan of  *)
(* all spam, then a deep analysis of the messages of suspicious patterns,  *)
(* with a checkpoint that says how far a run came.                         *)
(*                                                                         *)
(* A task is one call of mine_patterns or resume_from_checkpoint, of this  *)
(* pipeline or of the plain one: the commands of app/cli.py and the mine   *)
(* endpoint of app/api/main.py take either, and the rows are in one table. *)
(* Both stages are calls of the plain pipeline, with a checkpoint of their *)
(* own; here they return how many patterns they created, and of the plain  *)
(* pipeline, which PatternMining models, only what it does to the row is   *)
(* kept.  A step lies between two awaits on the database or on a stage.    *)
(***************************************************************************)
EXTENDS Integers, FiniteSets

CONSTANTS
    Tasks,
    Checkpoints,   \* rows of pattern_mining_checkpoints, used or not
    Finds,         \* what a stage may create: 0 also when it was refused
    Absent         \* no such row, no value

VARIABLES
    checkpoint,    \* the rows
    task,          \* the calls under way
    did            \* history: what happened to a row, <<row, event>>

stageVars == <<checkpoint, task, did>>

\* `saved` says that the row has patterns_in_progress, `meta` is the stage1_patterns
\* of its metadata, "other" the stage of a row of the plain pipeline.
Stages == {"stage1", "stage2", "completed", "other"}
Rows == [status: {"running", "failed", "completed"}, stage: Stages, saved: BOOLEAN, meta: Nat]

\* The metadata given with a new row ("two_stage": True) is not stored.
NewRow == [status |-> "running", stage |-> "stage1", saved |-> FALSE, meta |-> 0]
PlainRow == [NewRow EXCEPT !.stage = "other"]

\* `seen` is the row as the task's session loaded it, `meta` the patterns of the
\* first stage that a resumed checkpoint knew of.
Idle == [pc |-> "idle", row |-> Absent, seen |-> NewRow, resumed |-> FALSE,
         meta |-> 0, one |-> 0, two |-> 0]

\* What the constants are; a module that instantiates this one assumes it.
StageAssumption == Finds \subseteq Nat /\ Absent \notin Checkpoints \cup Rows

StageTypeOK ==
    /\ checkpoint \in [Checkpoints -> Rows \cup {Absent}]
    /\ task \in [Tasks -> [pc: {"idle", "begin", "list", "one", "save", "filter", "two",
                                "complete", "stats", "unbound",
                                "mining", "resume", "gather"},
                           row: Checkpoints \cup {Absent}, seen: Rows, resumed: BOOLEAN,
                           meta: Nat, one: Nat, two: Nat]]
    /\ did \subseteq Checkpoints \X {"staged", "one", "two", "quiet", "plain"}

StageInit ==
    /\ checkpoint = [c \in Checkpoints |-> Absent]
    /\ task = [t \in Tasks |-> Idle]
    /\ did = {}

Row(t) == checkpoint[task[t].row]
Happened(t, event) == did' = did \cup {<<task[t].row, event>>}

\* A step without an update, and one with: CheckpointRepository.update writes the
\* status and the stage only where they differ from what the session has loaded,
\* and loads the row anew.
Go(t, from, new) ==
    /\ task[t].pc = from
    /\ task' = [task EXCEPT ![t] = new]
    /\ UNCHANGED checkpoint

Updated(t, new) ==
    [status |-> IF new.status = task[t].seen.status THEN Row(t).status ELSE new.status,
     stage |-> IF new.stage = task[t].seen.stage THEN Row(t).stage ELSE new.stage,
     saved |-> Row(t).saved \/ new.saved,
     meta |-> IF new.meta = task[t].seen.meta THEN Row(t).meta ELSE new.meta]

GoAndUpdate(t, from, new, row) ==
    /\ task[t].pc = from
    /\ checkpoint' = [checkpoint EXCEPT ![task[t].row] = Updated(t, row)]
    /\ task' = [task EXCEPT ![t] = IF new.pc = "idle" THEN Idle
                                   ELSE [new EXCEPT !.seen = Updated(t, row)]]

-----------------------------------------------------------------------------
(* mine_patterns *)

\* mine-patterns, POST /patterns/mine: the setting chooses the pipeline, which
\* creates the checkpoint of a new run.
Begin(t, c, pc, row) ==
    /\ checkpoint[c] = Absent /\ task[t].pc = "idle"
    /\ task' = [task EXCEPT ![t] = [Idle EXCEPT !.pc = pc, !.row = c, !.seen = row]]
    /\ checkpoint' = [checkpoint EXCEPT ![c] = row]

Start(t, c) == Begin(t, c, "list", NewRow) /\ did' = did \cup {<<c, "staged">>}
StartPlain(t, c) == Begin(t, c, "mining", PlainRow) /\ UNCHANGED did

\* Where a run goes on with the stage of its checkpoint.  At any other stage it
\* falls through to the totals, with names that were never bound.
Entry(stage) ==
    CASE stage = "stage1" -> "one"
      [] stage = "stage2" -> "filter"
      [] OTHER -> "unbound"

\* Read the messages: enough ...
BugList(t) ==
    LET seen == task[t].seen IN
    /\ GoAndUpdate(t, "list", [task[t] EXCEPT !.pc = Entry(seen.stage), !.meta = seen.meta],
                   [seen EXCEPT !.stage = IF @ = "stage1" THEN "stage2" ELSE @])
    /\ UNCHANGED did
List(t) ==
    LET seen == task[t].seen IN
    /\ Go(t, "list", [task[t] EXCEPT !.pc = Entry(seen.stage), !.meta = seen.meta])
    /\ UNCHANGED did

\* ... or too few.
Insufficient(t) ==
    /\ GoAndUpdate(t, "list", Idle, [task[t].seen EXCEPT !.status = "failed"])
    /\ UNCHANGED did

StageOne(t) ==
    /\ \E n \in Finds : Go(t, "one", [task[t] EXCEPT !.pc = "save", !.one = n])
    /\ Happened(t, "one")

SaveStageOne(t) ==
    /\ GoAndUpdate(t, "save", [task[t] EXCEPT !.pc = "filter"],
                   [task[t].seen EXCEPT !.stage = "stage2", !.meta = task[t].one])
    /\ UNCHANGED did

\* _filter_suspicious_patterns: no URL and no commercial pattern in any message
\* ends the run.  The metadata stays; the statistics are read afterwards.
NothingSuspicious(t) ==
    /\ GoAndUpdate(t, "filter", [task[t] EXCEPT !.pc = "stats"],
                   [task[t].seen EXCEPT !.status = "completed", !.stage = "completed"])
    /\ Happened(t, "quiet")

\* The most frequent of the patterns, at least one.
Suspicious(t) ==
    /\ Go(t, "filter", [task[t] EXCEPT !.pc = "two"])
    /\ UNCHANGED did

\* On the messages that hold one of them.
StageTwo(t) ==
    /\ \E n \in Finds : Go(t, "two", [task[t] EXCEPT !.pc = "complete", !.two = n])
    /\ Happened(t, "two")

\* A resumed run counts for its first stage what the checkpoint said when it
\* began, also when it has just run that stage itself.
FirstStage(t) == IF task[t].resumed THEN task[t].meta ELSE task[t].one

Complete(t) ==
    /\ GoAndUpdate(t, "complete",
                   [task[t] EXCEPT !.pc = IF task[t].resumed THEN "stats" ELSE "idle"],
                   [task[t].seen EXCEPT !.status = "completed", !.stage = "completed",
                                        !.meta = FirstStage(t)])
    /\ UNCHANGED did

\* What a call reports, of both stages.
Reported(t) == FirstStage(t) + task[t].two

Return(t) ==
    /\ Go(t, "stats", Idle)
    /\ UNCHANGED did

\* Any exception: FAILED, also after COMPLETED was written.  The plain pipeline has
\* no handler around a resume.
Fail(t) ==
    /\ task[t].pc \notin {"idle", "begin", "resume", "gather"}
    /\ GoAndUpdate(t, task[t].pc, Idle, [task[t].seen EXCEPT !.status = "failed"])
    /\ UNCHANGED did

\* The update fails as well, or the process ends.
Crash(t) ==
    /\ task[t].pc # "idle"
    /\ Go(t, task[t].pc, Idle)
    /\ UNCHANGED did

-----------------------------------------------------------------------------
(* resume_from_checkpoint *)

BeginResume(t, c) ==
    /\ checkpoint[c] # Absent /\ checkpoint[c].status # "completed"
    /\ Go(t, "idle", [Idle EXCEPT !.pc = "begin", !.row = c, !.seen = checkpoint[c],
                                  !.resumed = TRUE])
    /\ UNCHANGED did

\* RUNNING, unless the session saw that before and another call has ended the row
\* since.
SetRunning(t) ==
    /\ GoAndUpdate(t, "begin", [task[t] EXCEPT !.pc = "list"],
                   [task[t].seen EXCEPT !.status = "running"])
    /\ UNCHANGED did

-----------------------------------------------------------------------------
(* The plain pipeline and resume-mining *)

\* The signals of the chunks so far.
SaveSignals(t) ==
    /\ GoAndUpdate(t, "mining", task[t], [task[t].seen EXCEPT !.saved = TRUE])
    /\ UNCHANGED did

PlainCompletes(t) ==
    /\ GoAndUpdate(t, task[t].pc, Idle, [task[t].seen EXCEPT !.status = "completed",
                                              !.stage = "completed", !.meta = 0])
    /\ Happened(t, "plain")

\* Patterns, rules and what follows them.
Mine(t) == task[t].pc = "mining" /\ PlainCompletes(t)

\* resume-mining looks for "two_stage" in the metadata, where it never is, and
\* resumes every checkpoint with the plain pipeline.
ResumeCommand(t, c) ==
    /\ checkpoint[c] # Absent /\ checkpoint[c].status # "completed"
    /\ Go(t, "idle", [Idle EXCEPT !.pc = "resume", !.row = c, !.seen = checkpoint[c]])
    /\ UNCHANGED did

PlainRunning(t) ==
    /\ GoAndUpdate(t, "resume", [task[t] EXCEPT !.pc = "gather"],
                   [task[t].seen EXCEPT !.status = "running"])
    /\ UNCHANGED did

\* With saved signals the run goes on from them.
Resumable(t) == task[t].seen.saved
PlainResumed(t) == task[t].pc = "gather" /\ Resumable(t) /\ PlainCompletes(t)

\* Without, a name that is not defined raises, unless there is too little data.
PlainStops(t) ==
    /\ ~Resumable(t)
    /\ \/ GoAndUpdate(t, "gather", Idle, [task[t].seen EXCEPT !.status = "failed"])
       \/ Go(t, "gather", Idle)
    /\ UNCHANGED did

-----------------------------------------------------------------------------
StageNext ==
    \E t \in Tasks :
        \/ \E c \in Checkpoints :
              Start(t, c) \/ StartPlain(t, c) \/ BeginResume(t, c) \/ ResumeCommand(t, c)
        \/ SetRunning(t) \/ List(t) \/ Insufficient(t)
        \/ StageOne(t) \/ SaveStageOne(t)
        \/ NothingSuspicious(t) \/ Suspicious(t) \/ StageTwo(t)
        \/ Complete(t) \/ Return(t) \/ Fail(t) \/ Crash(t)
        \/ SaveSignals(t) \/ Mine(t) \/ PlainRunning(t) \/ PlainResumed(t) \/ PlainStops(t)

StageSpec == StageInit /\ [][StageNext]_stageVars

-----------------------------------------------------------------------------
\* A checkpoint is COMPLETED only when all its work ran to its end, in one call or
\* over crashes and resumes by others and with either pipeline: for a run in two
\* stages both of them, or the first with nothing suspicious in it.
CompletedMeansBoth ==
    \A c \in Checkpoints :
        checkpoint[c] # Absent /\ checkpoint[c].status = "completed" =>
            IF <<c, "staged">> \in did
            THEN /\ <<c, "one">> \in did
                 /\ <<c, "two">> \in did \/ <<c, "quiet">> \in did
            ELSE <<c, "plain">> \in did
=============================================================================
