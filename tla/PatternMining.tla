---------------------------- MODULE PatternMining ----------------------------
(***************************************************************************)
(* Mining runs over the messages table, their checkpoints and what they    *)
(* create: mine_patterns and resume_from_checkpoint of                     *)
(* app/v2_pattern_mining.py, with CheckpointRepository, PatternRepository  *)
(* and MessageRepository.get_recent of app/repositories.py.                *)
(*                                                                         *)
(* A task is one call with a session of its own; the distributed lock is   *)
(* released before any of this happens, so calls overlap.  A step lies     *)
(* between two awaits on the database.  A message has one feature (a URL)  *)
(* and the signals of a run are how often it counted each message; the cap *)
(* of 20 features per chunk, the days window and the LLM and semantic      *)
(* stages are left out.                                                    *)
(***************************************************************************)
EXTENDS Integers, FiniteSets, Sequences, Functions

CONSTANTS
    Messages,     \* ids of the spam messages that may be ingested
    Stamp,        \* their timestamps
    FeatureOf,    \* the feature of a message
    Features,
    MiningTasks,
    ChunkSize, Parallel, BatchSize,
    MinSpam,      \* min_spam_count
    MinCount,     \* pattern_mining_min_url_count
    ListLimit,    \* how many patterns the duplicate check looks at
    MaxRuns,      \* bound: checkpoints ever created
    MiningFaults        \* subset of {"stop", "save_error"}

ASSUME MiningAssumption ==
    /\ Messages \subseteq Nat \ {0} /\ IsFiniteSet(Messages)
    /\ Stamp \in [Messages -> Nat]
    /\ \A m, n \in Messages : Stamp[m] = Stamp[n] => m = n
    /\ FeatureOf \in [Messages -> Features]
    /\ ChunkSize \in Nat \ {0} /\ Parallel \in Nat \ {0} /\ BatchSize \in Nat \ {0}
    /\ MinSpam \in Nat /\ MinCount \in Nat /\ ListLimit \in Nat /\ MaxRuns \in Nat
    /\ MiningFaults \subseteq {"stop", "save_error"}

VARIABLES
    stored,     \* the messages table
    cps,        \* checkpoints, in the order of their ids
    patterns,   \* URL patterns, newest first: their features
    rules,      \* candidate rules created, by feature
    run         \* task -> the call it is in

miningVars == <<stored, cps, patterns, rules, run>>

Signals == [Messages -> Nat]
NoSignals == [m \in Messages |-> 0]

\* `since` is after_id, `rest` what the loop has yet to process, `todo` the
\* features still to become patterns and `feature` the one in hand; `window` is
\* a history variable: the messages that the mining run listed.
Idle == [pc |-> "idle", cp |-> 0, resumed |-> FALSE, since |-> 0, rest |-> {},
         chunks |-> 0, signals |-> NoSignals, todo |-> {}, feature |-> {}]

Checkpoints ==
    [status: {"running", "completed", "failed"},
     last: Messages \cup {0}, saved: Signals, window: SUBSET Messages]

Runs ==
    [pc: {"idle", "list", "mine", "resume", "gather", "check", "create", "rule"},
     cp: Nat, resumed: BOOLEAN, since: Messages \cup {0}, rest: SUBSET Messages,
     chunks: Nat, signals: Signals, todo: SUBSET Features, feature: SUBSET Features]

MiningTypeOK ==
    /\ stored \subseteq Messages
    /\ cps \in Seq(Checkpoints)
    /\ patterns \in Seq(Features)
    /\ rules \in [Features -> Nat]
    /\ run \in [MiningTasks -> Runs]
    /\ \A t \in MiningTasks : run[t].pc # "idle" => run[t].cp \in 1..Len(cps)

MiningInit ==
    /\ stored = {}
    /\ cps = <<>>
    /\ patterns = <<>>
    /\ rules = [f \in Features |-> 0]
    /\ run = [t \in MiningTasks |-> Idle]

At(t, pc) == run[t].pc = pc
Set(t, new) == run' = [run EXCEPT ![t] = new]

-----------------------------------------------------------------------------
\* A message is ingested.  PostgreSQL hands out ids before the insert commits, so
\* a row may appear after one with a larger id; timestamps are in any order.
Ingest(m) ==
    /\ m \notin stored
    /\ stored' = stored \cup {m}
    /\ UNCHANGED <<cps, patterns, rules, run>>

\* get_recent(is_spam=True, after_id=since)
Recent(since) == {m \in stored : m > since}

\* The first n of a list ordered by timestamp, newest first.
FirstOf(n, S) == {m \in S : Cardinality({x \in S : Stamp[x] > Stamp[m]}) < n}

Oldest(S) == CHOOSE m \in S : \A n \in S : Stamp[m] <= Stamp[n]

\* The signals of S merged into those gathered so far.
Merged(signals, S) ==
    [m \in Messages |-> IF m \in S THEN signals[m] + 1 ELSE signals[m]]

CountOf(signals, f) ==
    SumFunctionOnSet(signals, {m \in Messages : FeatureOf[m] = f})

\* The features frequent enough to become patterns.
Frequent(signals) == {f \in Features : CountOf(signals, f) >= MinCount}

-----------------------------------------------------------------------------
(* mine_patterns: list, count, save *)

BugPending == [status |-> "pending", last |-> 0, saved |-> NoSignals, window |-> {}]
NewCheckpoint == [status |-> "running", last |-> 0, saved |-> NoSignals, window |-> {}]

\* What since_checkpoint may name: the position of a checkpoint, or nothing.
SinceIds == {0} \cup {cps[c].last : c \in DOMAIN cps}

StartMining(t) ==
    /\ At(t, "idle") /\ Len(cps) < MaxRuns
    /\ cps' = Append(cps, NewCheckpoint)
    /\ \E since \in SinceIds :
          Set(t, [Idle EXCEPT !.pc = "list", !.cp = Len(cps) + 1, !.since = since])
    /\ UNCHANGED <<stored, patterns, rules>>

\* get_recent; too few messages fail the run.
ListSpam(t) ==
    LET list == Recent(run[t].since) IN
    /\ At(t, "list")
    /\ \/ /\ Cardinality(list) >= MinSpam
          /\ Set(t, [run[t] EXCEPT !.pc = "mine", !.rest = list])
          /\ cps' = [cps EXCEPT ![run[t].cp].window = list]
       \/ /\ Cardinality(list) < MinSpam
          /\ Set(t, Idle)
          /\ cps' = [cps EXCEPT ![run[t].cp].status = "failed"]
    /\ UNCHANGED <<stored, patterns, rules>>

ChunksIn(S) == (Cardinality(S) + ChunkSize - 1) \div ChunkSize

\* What one batch of parallel chunks takes from the list.
BatchOf(rest) == FirstOf(Parallel * ChunkSize, rest)

\* What is left for the next batch.
BugOverlaps(rest) == rest \ FirstOf(Parallel * ChunkSize - 1, rest)
AfterBatch(rest) == rest \ FirstOf(Parallel * ChunkSize, rest)

\* The index of the batch's last chunk decides whether the checkpoint is saved.
SaveDue(chunks) == chunks - 1 > 0 /\ (chunks - 1) % BatchSize = 0

\* The signals that are saved: the merged ones.
BugSavesBeforeMerge(before, merged) == before
Saved(before, merged) == merged

\* Extract one batch, merge it, save when due.  A save that fails is only logged.
MineBatch(t) ==
    LET batch == BatchOf(run[t].rest)
        merged == Merged(run[t].signals, batch)
        chunks == run[t].chunks + ChunksIn(batch)
    IN
    /\ At(t, "mine") /\ run[t].rest # {}
    /\ Set(t, [run[t] EXCEPT !.rest = AfterBatch(@), !.signals = merged,
                             !.chunks = chunks])
    /\ \/ /\ SaveDue(chunks)
          /\ cps' = [cps EXCEPT ![run[t].cp].last = Oldest(batch),
                                ![run[t].cp].saved = Saved(run[t].signals, merged)]
       \/ /\ ~SaveDue(chunks) \/ "save_error" \in MiningFaults
          /\ UNCHANGED cps
    /\ UNCHANGED <<stored, patterns, rules>>

MiningDone(t) ==
    /\ At(t, "mine") /\ run[t].rest = {}
    /\ Set(t, [run[t] EXCEPT !.pc = "check", !.todo = Frequent(run[t].signals)])
    /\ UNCHANGED <<stored, cps, patterns, rules>>

-----------------------------------------------------------------------------
(* resume_from_checkpoint *)

\* get_by_id; a completed checkpoint is refused.
StartResume(t, c) ==
    /\ At(t, "idle")
    /\ cps[c].status # "completed"
    /\ Set(t, [Idle EXCEPT !.pc = "resume", !.cp = c, !.resumed = TRUE])
    /\ UNCHANGED <<stored, cps, patterns, rules>>

\* The status becomes RUNNING, and the refresh that follows loads the row.
SetRunning(t) ==
    LET c == run[t].cp IN
    /\ At(t, "resume")
    /\ cps' = [cps EXCEPT ![c].status = "running"]
    /\ Set(t, [run[t] EXCEPT !.pc = "gather", !.since = cps[c].last,
                             !.signals = cps[c].saved])
    /\ UNCHANGED <<stored, patterns, rules>>

\* With saved signals, the messages after the checkpoint's are merged into them.
\* Without, too few messages fail the checkpoint; otherwise the call to
\* mine_patterns names an undefined variable and raises, with no handler.
GatherRemaining(t) ==
    LET list == Recent(run[t].since)
        merged == Merged(run[t].signals, list)
        hasSaved == run[t].signals # NoSignals
    IN
    /\ At(t, "gather")
    /\ \/ /\ hasSaved
          /\ Set(t, [run[t] EXCEPT !.pc = "check", !.signals = merged,
                                   !.todo = Frequent(merged)])
          /\ UNCHANGED cps
       \/ /\ ~hasSaved /\ Cardinality(list) < MinSpam
          /\ cps' = [cps EXCEPT ![run[t].cp].status = "failed"]
          /\ Set(t, Idle)
       \/ /\ ~hasSaved /\ Cardinality(list) >= MinSpam
          /\ UNCHANGED cps
          /\ Set(t, Idle)
    /\ UNCHANGED <<stored, patterns, rules>>

-----------------------------------------------------------------------------
(* _generate_patterns_and_rules *)

\* list_all(limit): the newest patterns.
BugMissesNewest == {patterns[i] : i \in {j \in DOMAIN patterns : j > 1}}
ListedPatterns == {patterns[i] : i \in {j \in DOMAIN patterns : j <= ListLimit}}

\* _create_url_pattern looks for a pattern of the same URL.
CheckPattern(t, f) ==
    /\ At(t, "check") /\ f \in run[t].todo
    /\ Set(t, IF f \in ListedPatterns
              THEN [run[t] EXCEPT !.todo = @ \ {f}]
              ELSE [run[t] EXCEPT !.todo = @ \ {f}, !.pc = "create", !.feature = {f}])
    /\ UNCHANGED <<stored, cps, patterns, rules>>

CreatePattern(t, f) ==
    /\ At(t, "create") /\ f \in run[t].feature
    /\ patterns' = <<f>> \o patterns
    /\ Set(t, [run[t] EXCEPT !.pc = "rule"])
    /\ UNCHANGED <<stored, cps, rules>>

\* The candidate rule, unless SafetyHeuristics keep the pattern as an insight.
CreateRule(t, f) ==
    /\ At(t, "rule") /\ f \in run[t].feature
    /\ Set(t, [run[t] EXCEPT !.pc = "check", !.feature = {}])
    /\ \/ rules' = [rules EXCEPT ![f] = @ + 1]
       \/ UNCHANGED rules
    /\ UNCHANGED <<stored, cps, patterns>>

Complete(t) ==
    /\ At(t, "check") /\ run[t].todo = {}
    /\ cps' = [cps EXCEPT ![run[t].cp].status = "completed"]
    /\ Set(t, Idle)
    /\ UNCHANGED <<stored, patterns, rules>>

\* The call ends early.  The handler of mine_patterns marks the checkpoint failed;
\* a resumed run has no handler, and a crash or a dead session marks nothing.
Stop(t) ==
    /\ "stop" \in MiningFaults /\ ~At(t, "idle")
    /\ \/ /\ ~run[t].resumed
          /\ cps' = [cps EXCEPT ![run[t].cp].status = "failed"]
       \/ UNCHANGED cps
    /\ Set(t, Idle)
    /\ UNCHANGED <<stored, patterns, rules>>

-----------------------------------------------------------------------------
Mine(t) == StartMining(t) \/ ListSpam(t) \/ MineBatch(t) \/ MiningDone(t)

Resume(t) ==
    \/ \E c \in DOMAIN cps : StartResume(t, c)
    \/ SetRunning(t) \/ GatherRemaining(t)

Generate(t) ==
    \/ \E f \in Features : CheckPattern(t, f) \/ CreatePattern(t, f) \/ CreateRule(t, f)
    \/ Complete(t)

MiningNext ==
    \/ \E m \in Messages : Ingest(m)
    \/ \E t \in MiningTasks : Mine(t) \/ Resume(t) \/ Generate(t) \/ Stop(t)

MiningSpec == MiningInit /\ [][MiningNext]_miningVars

-----------------------------------------------------------------------------
Generating(t) == run[t].pc \in {"check", "create", "rule"}

\* A run counted S when it counted each message of S exactly once.
CountsOnce(signals, S) == \A m \in S : signals[m] = 1

\* However the list splits into chunks and batches, a mining run counts each
\* message it listed once, and no other.
MiningCountsOnce ==
    \A t \in MiningTasks :
        Generating(t) /\ ~run[t].resumed =>
            /\ CountsOnce(run[t].signals, cps[run[t].cp].window)
            /\ \A m \in Messages \ cps[run[t].cp].window : run[t].signals[m] = 0

\* The signals of a checkpoint are complete for its position: they count the
\* listed messages down to last_processed_message_id once, and no older one.
SavedIsPrefix ==
    \A c \in DOMAIN cps :
        cps[c].last # 0 =>
            \A m \in Messages :
                cps[c].saved[m] =
                    IF m \in cps[c].window /\ Stamp[m] >= Stamp[cps[c].last] THEN 1 ELSE 0

\* Overlapping runs create the same URL pattern twice, but never more often than
\* there are calls: whoever checks later sees a pattern that is there.
DuplicatesBounded ==
    \A f \in Features :
        Cardinality({i \in DOMAIN patterns : patterns[i] = f}) <= Cardinality(MiningTasks)

\* A resumed run goes on from what was saved with the remaining messages: in the
\* end it counted each message the interrupted run had listed once.
ResumeCountsOnce ==
    \A t \in MiningTasks :
        Generating(t) /\ run[t].resumed =>
            CountsOnce(run[t].signals, cps[run[t].cp].window)
=============================================================================
