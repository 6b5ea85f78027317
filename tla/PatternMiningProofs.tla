------------------------- MODULE PatternMiningProofs -------------------------
(***************************************************************************)
(* What PatternMining guarantees for any messages, any chunk and batch     *)
(* sizes and any overlap of mining, resumed and stopped runs.              *)
(***************************************************************************)
EXTENDS PatternMining, FiniteSetTheorems, WellFoundedInduction, TLAPS

-----------------------------------------------------------------------------
(* Lists ordered by timestamp *)

LEMMA Stamps ==
    ASSUME MiningAssumption
    PROVE  /\ \A m \in Messages : Stamp[m] \in Nat
           /\ \A m, n \in Messages : Stamp[m] = Stamp[n] => m = n
           /\ IsFiniteSet(Messages)
BY DEF MiningAssumption

\* A non-empty set of numbers has a smallest one.
LEMMA LeastNumber ==
    ASSUME NEW T, T \subseteq Nat, T # {}
    PROVE  \E x \in T : \A y \in T : x <= y
<1>1. \E x \in T : \A y \in T : ~(<<y, x>> \in OpToRel(<, Nat))
    BY WFMin, NatLessThanWellFounded
<1>2. ASSUME NEW x \in Nat, NEW y \in Nat, y < x PROVE <<y, x>> \in OpToRel(<, Nat)
    BY <1>2 DEF OpToRel
<1>3. PICK x \in T : \A y \in T : ~(y < x)
    BY <1>1, <1>2
<1> QED
    BY <1>3

\* Oldest is a message of the set, and no message of it is older.
LEMMA OldestIsLeast ==
    ASSUME MiningAssumption, NEW S, S \subseteq Messages, S # {}
    PROVE  Oldest(S) \in S /\ \A n \in S : Stamp[Oldest(S)] <= Stamp[n]
<1> DEFINE T == {Stamp[m] : m \in S}
<1>1. PICK x \in T : \A y \in T : x <= y
    <2>1. T \subseteq Nat
        BY Stamps
    <2>2. T # {}
        <3>1. PICK m \in S : TRUE
            OBVIOUS
        <3>2. Stamp[m] \in T
            OBVIOUS
        <3> QED
            BY <3>2
    <2> HIDE DEF T
    <2> QED
        BY <2>1, <2>2, LeastNumber
<1>2. \E m \in S : \A n \in S : Stamp[m] <= Stamp[n]
    BY <1>1
<1> QED
    BY <1>2 DEF Oldest

Newer(S, m) == {x \in S : Stamp[x] > Stamp[m]}

LEMMA NewerFinite ==
    ASSUME MiningAssumption, NEW S, S \subseteq Messages, NEW m
    PROVE  IsFiniteSet(Newer(S, m)) /\ Cardinality(Newer(S, m)) \in Nat
<1>1. IsFiniteSet(S)
    BY FS_Subset, Stamps
<1>2. IsFiniteSet(Newer(S, m))
    BY <1>1, FS_Subset DEF Newer
<1> QED
    BY <1>2, FS_CardinalityType

\* A newer message has strictly fewer messages before it in the list.
LEMMA NewerShrinks ==
    ASSUME MiningAssumption, NEW S, S \subseteq Messages,
           NEW m \in S, NEW x \in S, Stamp[x] > Stamp[m]
    PROVE  Cardinality(Newer(S, x)) < Cardinality(Newer(S, m))
<1>1. ASSUME NEW y \in Newer(S, x) PROVE y \in Newer(S, m)
    <2>1. y \in S /\ Stamp[y] > Stamp[x]
        BY DEF Newer
    <2>2. Stamp[y] \in Nat /\ Stamp[x] \in Nat /\ Stamp[m] \in Nat
        BY <2>1, Stamps
    <2> QED
        BY <2>1, <2>2 DEF Newer
<1>2. x \in Newer(S, m) /\ x \notin Newer(S, x)
    BY Stamps DEF Newer
<1>3. /\ Cardinality(Newer(S, x)) <= Cardinality(Newer(S, m))
      /\ Cardinality(Newer(S, x)) # Cardinality(Newer(S, m))
    <2>1. IsFiniteSet(Newer(S, m)) /\ Newer(S, x) \in SUBSET Newer(S, m)
        BY <1>1, NewerFinite
    <2> HIDE DEF Newer
    <2> QED
        BY <1>2, <2>1, FS_Subset
<1>4. Cardinality(Newer(S, x)) \in Nat /\ Cardinality(Newer(S, m)) \in Nat
    BY NewerFinite
<1> QED
    BY <1>3, <1>4

\* The first n of a list hold nothing older than what they leave.
LEMMA FirstOfIsPrefix ==
    ASSUME MiningAssumption, NEW n \in Nat, NEW S, S \subseteq Messages,
           NEW m \in FirstOf(n, S), NEW x \in S \ FirstOf(n, S)
    PROVE  Stamp[m] > Stamp[x]
<1>1. /\ m \in S /\ x \in S
      /\ Cardinality(Newer(S, m)) < n /\ ~(Cardinality(Newer(S, x)) < n)
    BY DEF FirstOf, Newer
<1>2. Stamp[m] # Stamp[x]
    BY <1>1, Stamps
<1>3. ASSUME Stamp[x] > Stamp[m] PROVE FALSE
    <2>1. Cardinality(Newer(S, x)) < Cardinality(Newer(S, m))
        BY <1>1, <1>3, NewerShrinks
    <2>2. Cardinality(Newer(S, x)) \in Nat /\ Cardinality(Newer(S, m)) \in Nat
        BY NewerFinite
    <2> QED
        BY <1>1, <2>1, <2>2
<1> QED
    BY <1>1, <1>2, <1>3, Stamps

\* The first n of a list that is not empty are not empty.
LEMMA FirstOfNonEmpty ==
    ASSUME MiningAssumption, NEW n \in Nat \ {0}, NEW S, S \subseteq Messages, S # {}
    PROVE  FirstOf(n, S) # {}
<1> DEFINE C == {Cardinality(Newer(S, m)) : m \in S}
<1>1. PICK k \in C : \A l \in C : k <= l
    <2>1. ASSUME NEW m \in S PROVE Cardinality(Newer(S, m)) \in Nat
        BY NewerFinite
    <2>2. C \subseteq Nat
        BY <2>1
    <2>3. C # {}
        <3>1. PICK m \in S : TRUE
            OBVIOUS
        <3>2. Cardinality(Newer(S, m)) \in C
            OBVIOUS
        <3> QED
            BY <3>2
    <2> HIDE DEF C
    <2> QED
        BY <2>2, <2>3, LeastNumber
<1>2. PICK m \in S : k = Cardinality(Newer(S, m))
    BY <1>1
<1>3. Newer(S, m) = {}
    <2> SUFFICES ASSUME NEW x \in Newer(S, m) PROVE FALSE
        OBVIOUS
    <2>1. x \in S /\ Stamp[x] > Stamp[m]
        BY DEF Newer
    <2>2. Cardinality(Newer(S, x)) < Cardinality(Newer(S, m))
        BY <2>1, NewerShrinks
    <2>3. k <= Cardinality(Newer(S, x))
        BY <1>1, <2>1
    <2> QED
        BY <1>2, <2>2, <2>3, NewerFinite
<1>4. Cardinality(Newer(S, m)) = 0
    BY <1>3, FS_EmptySet
<1> QED
    BY <1>4 DEF FirstOf, Newer

-----------------------------------------------------------------------------
(* Type correctness *)

USE DEF At, Set, NewCheckpoint, ListedPatterns, Saved

LEMMA IdleTyped == Idle \in Runs
BY DEF Idle, Runs, NoSignals, Signals

Pcs == {"idle", "list", "mine", "resume", "gather", "check", "create", "rule"}

\* Changing fields of a call's record to well-typed values keeps its type.
LEMMA RunFields ==
    ASSUME NEW r \in Runs, NEW p \in Pcs, NEW T, T \subseteq Features
    PROVE  /\ [r EXCEPT !.pc = p] \in Runs
           /\ [r EXCEPT !.pc = p, !.todo = T] \in Runs
           /\ [r EXCEPT !.todo = T] \in Runs
           /\ [r EXCEPT !.pc = p, !.feature = T] \in Runs
           /\ \A S \in SUBSET Features :
                 [r EXCEPT !.todo = S, !.pc = p, !.feature = T] \in Runs
           /\ \A g \in Signals :
                 /\ [r EXCEPT !.pc = p, !.signals = g, !.todo = T] \in Runs
                 /\ \A m \in Messages \cup {0} :
                       [r EXCEPT !.pc = p, !.since = m, !.signals = g] \in Runs
           /\ \A c \in Nat :
                 /\ [r EXCEPT !.pc = p, !.cp = c, !.resumed = TRUE] \in Runs
                 /\ \A m \in Messages \cup {0} :
                       [r EXCEPT !.pc = p, !.cp = c, !.since = m] \in Runs
<1>1. [r EXCEPT !.pc = p] \in Runs
    BY DEF Runs, Pcs
<1>2. [r EXCEPT !.pc = p, !.todo = T] \in Runs
    BY DEF Runs, Pcs
<1>3. [r EXCEPT !.todo = T] \in Runs
    BY DEF Runs, Pcs
<1>4. [r EXCEPT !.pc = p, !.feature = T] \in Runs
    BY DEF Runs, Pcs
<1>5. ASSUME NEW S \in SUBSET Features
      PROVE  [r EXCEPT !.todo = S, !.pc = p, !.feature = T] \in Runs
    BY DEF Runs, Pcs
<1>6. ASSUME NEW g \in Signals
      PROVE  [r EXCEPT !.pc = p, !.signals = g, !.todo = T] \in Runs
    BY DEF Runs, Pcs
<1>7. ASSUME NEW g \in Signals, NEW m \in Messages \cup {0}
      PROVE  [r EXCEPT !.pc = p, !.since = m, !.signals = g] \in Runs
    BY DEF Runs, Pcs
<1>8. ASSUME NEW c \in Nat PROVE [r EXCEPT !.pc = p, !.cp = c, !.resumed = TRUE] \in Runs
    BY DEF Runs, Pcs
<1>9. ASSUME NEW c \in Nat, NEW m \in Messages \cup {0}
      PROVE  [r EXCEPT !.pc = p, !.cp = c, !.since = m] \in Runs
    BY DEF Runs, Pcs
<1> QED
    BY <1>1, <1>2, <1>3, <1>4, <1>5, <1>6, <1>7, <1>8, <1>9

LEMMA NewCheckpointTyped == NewCheckpoint \in Checkpoints
BY DEF Checkpoints, NoSignals, Signals

LEMMA MergedTyped ==
    ASSUME NEW signals \in Signals, NEW S PROVE Merged(signals, S) \in Signals
BY DEF Merged, Signals

\* The record of the call that task t is in.
LEMMA RunTyped ==
    ASSUME MiningTypeOK, NEW t \in MiningTasks
    PROVE  /\ run[t] \in Runs
           /\ run[t].cp \in Nat /\ run[t].resumed \in BOOLEAN
           /\ run[t].since \in Messages \cup {0} /\ run[t].rest \subseteq Messages
           /\ run[t].chunks \in Nat /\ run[t].signals \in Signals
           /\ run[t].todo \subseteq Features /\ run[t].feature \subseteq Features
           /\ run[t].pc # "idle" => run[t].cp \in DOMAIN cps
BY DEF MiningTypeOK, Runs

LEMMA CheckpointTyped ==
    ASSUME MiningTypeOK, NEW c \in DOMAIN cps
    PROVE  /\ cps[c] \in Checkpoints
           /\ cps[c].last \in Messages \cup {0} /\ cps[c].saved \in Signals
           /\ cps[c].window \subseteq Messages
<1>1. cps \in Seq(Checkpoints) /\ cps[c] \in Checkpoints
    BY DEF MiningTypeOK
<1> QED
    BY <1>1 DEF Checkpoints

\* A step that gives task t a well-typed record keeps the types.
LEMMA RunUpdateTyped ==
    ASSUME MiningTypeOK, NEW t \in MiningTasks, NEW new \in Runs, Set(t, new),
           new.pc # "idle" => new.cp \in 1..Len(cps'),
           cps' \in Seq(Checkpoints), Len(cps') >= Len(cps),
           stored' = stored, patterns' \in Seq(Features), rules' \in [Features -> Nat]
    PROVE  MiningTypeOK'
<1>1. run' \in [MiningTasks -> Runs]
    BY DEF MiningTypeOK
<1>2. ASSUME NEW u \in MiningTasks, run'[u].pc # "idle" PROVE run'[u].cp \in 1..Len(cps')
    <2>1. CASE u = t
        BY <1>2, <2>1 DEF MiningTypeOK
    <2>2. CASE u # t
        <3>1. run'[u] = run[u] /\ run[u].cp \in 1..Len(cps)
            BY <1>2, <2>2 DEF MiningTypeOK
        <3> QED
            BY <3>1 DEF MiningTypeOK
    <2> QED
        BY <2>1, <2>2
<1> QED
    BY <1>1, <1>2 DEF MiningTypeOK

\* The same, for a step that leaves the checkpoints alone.
LEMMA RunOnlyTyped ==
    ASSUME MiningTypeOK, NEW t \in MiningTasks, NEW new \in Runs, Set(t, new),
           new.pc # "idle" => new.cp \in DOMAIN cps,
           stored' = stored, cps' = cps,
           patterns' = patterns \/ patterns' \in Seq(Features),
           rules' = rules \/ rules' \in [Features -> Nat]
    PROVE  MiningTypeOK'
<1>1. /\ cps' \in Seq(Checkpoints) /\ Len(cps') >= Len(cps)
      /\ DOMAIN cps = 1..Len(cps')
      /\ patterns' \in Seq(Features) /\ rules' \in [Features -> Nat]
    BY DEF MiningTypeOK
<1> QED
    BY <1>1, RunUpdateTyped

\* The same, for a step that rewrites checkpoints and leaves the tables alone.
LEMMA RunAndCheckpointTyped ==
    ASSUME MiningTypeOK, NEW t \in MiningTasks, NEW new \in Runs, Set(t, new),
           new.pc # "idle" => new.cp \in DOMAIN cps,
           cps' \in Seq(Checkpoints), Len(cps') = Len(cps),
           UNCHANGED <<stored, patterns, rules>>
    PROVE  MiningTypeOK'
<1>1. /\ Len(cps') >= Len(cps) /\ DOMAIN cps = 1..Len(cps')
      /\ patterns' \in Seq(Features) /\ rules' \in [Features -> Nat]
    BY DEF MiningTypeOK
<1> QED
    BY <1>1, RunUpdateTyped

\* Rewriting one checkpoint keeps their sequence.
LEMMA CheckpointUpdate ==
    ASSUME MiningTypeOK, NEW c \in DOMAIN cps, NEW new \in Checkpoints,
           cps' = [cps EXCEPT ![c] = new]
    PROVE  cps' \in Seq(Checkpoints) /\ Len(cps') = Len(cps)
BY DEF MiningTypeOK

\* What a step may write into a checkpoint.
LEMMA CheckpointFields ==
    ASSUME MiningTypeOK, NEW c \in DOMAIN cps
    PROVE  /\ \A s \in {"running", "completed", "failed"} :
                [cps[c] EXCEPT !.status = s] \in Checkpoints
           /\ \A w \in SUBSET Messages : [cps[c] EXCEPT !.window = w] \in Checkpoints
           /\ \A m \in Messages, g \in Signals :
                [cps[c] EXCEPT !.last = m, !.saved = g] \in Checkpoints
<1>1. cps[c] \in Checkpoints
    BY CheckpointTyped
<1> QED
    BY <1>1 DEF Checkpoints

LEMMA ChunksTyped ==
    ASSUME MiningAssumption, NEW S, S \subseteq Messages
    PROVE  ChunksIn(S) \in Nat
<1>1. Cardinality(S) \in Nat
    BY FS_Subset, FS_CardinalityType, Stamps
<1>2. ChunkSize \in Nat \ {0}
    BY DEF MiningAssumption
<1>3. ASSUME NEW n \in Nat, NEW k \in Nat \ {0} PROVE (n + k - 1) \div k \in Nat
    OBVIOUS
<1> QED
    BY <1>1, <1>2, <1>3 DEF ChunksIn

\* A batch of a list that is not empty is not empty, and nothing in it is older
\* than what it leaves.
LEMMA BatchTaken ==
    ASSUME MiningAssumption, NEW S, S \subseteq Messages, S # {}
    PROVE  /\ BatchOf(S) \subseteq S /\ BatchOf(S) # {}
           /\ AfterBatch(S) = S \ BatchOf(S)
           /\ \A m \in BatchOf(S), n \in AfterBatch(S) : Stamp[m] > Stamp[n]
<1>1. Parallel * ChunkSize \in Nat \ {0}
    <2>1. ASSUME NEW p \in Nat \ {0}, NEW q \in Nat \ {0} PROVE p * q \in Nat \ {0}
        OBVIOUS
    <2> QED
        BY <2>1 DEF MiningAssumption
<1> QED
    BY <1>1, FirstOfNonEmpty, FirstOfIsPrefix DEF BatchOf, AfterBatch, FirstOf

LEMMA MiningStepType ==
    ASSUME MiningAssumption, MiningTypeOK, [MiningNext]_miningVars
    PROVE  MiningTypeOK'
<1>1. ASSUME NEW m \in Messages, Ingest(m) PROVE MiningTypeOK'
    BY <1>1 DEF Ingest, MiningTypeOK
<1>2. ASSUME NEW t \in MiningTasks, StartMining(t) PROVE MiningTypeOK'
    <2>1. /\ cps' \in Seq(Checkpoints) /\ Len(cps') = Len(cps) + 1
          /\ Len(cps) \in Nat
        BY <1>2, NewCheckpointTyped DEF StartMining, MiningTypeOK
    <2>2. PICK since \in SinceIds :
            Set(t, [Idle EXCEPT !.pc = "list", !.cp = Len(cps) + 1, !.since = since])
        BY <1>2 DEF StartMining
    <2>3. since \in Messages \cup {0}
        BY CheckpointTyped DEF SinceIds
    <2>4. [Idle EXCEPT !.pc = "list", !.cp = Len(cps) + 1, !.since = since] \in Runs
        <3>1. {} \subseteq Features /\ Len(cps) + 1 \in Nat /\ "list" \in Pcs
            BY <2>1 DEF Pcs
        <3> QED
            BY <2>3, <3>1, IdleTyped, RunFields
    <2> DEFINE new == [Idle EXCEPT !.pc = "list", !.cp = Len(cps) + 1, !.since = since]
    <2>5. new.cp \in 1..Len(cps') /\ Len(cps') >= Len(cps)
        BY <2>1 DEF Idle
    <2>6. /\ stored' = stored /\ patterns' \in Seq(Features)
          /\ rules' \in [Features -> Nat]
        BY <1>2 DEF StartMining, MiningTypeOK
    <2> HIDE DEF new
    <2> QED
        BY <2>1, <2>2, <2>4, <2>5, <2>6, RunUpdateTyped DEF new
<1>3. ASSUME NEW t \in MiningTasks, ListSpam(t) PROVE MiningTypeOK'
    <2> DEFINE list == Recent(run[t].since)
               c == run[t].cp
               new == [run[t] EXCEPT !.pc = "mine", !.rest = list]
    <2>1. list \subseteq Messages /\ run[t].pc = "list" /\ c \in DOMAIN cps
        BY <1>3, RunTyped DEF ListSpam, Recent, MiningTypeOK
    <2>2. new \in Runs /\ new.cp = c
        BY <2>1, RunTyped DEF Runs
    <2>3. CASE Set(t, new) /\ cps' = [cps EXCEPT ![c].window = list]
        <3>1. cps' \in Seq(Checkpoints) /\ Len(cps') = Len(cps)
            BY <2>1, <2>3, CheckpointFields, CheckpointUpdate
        <3> QED
            BY <1>3, <2>1, <2>2, <2>3, <3>1, RunAndCheckpointTyped DEF ListSpam
    <2>4. CASE Set(t, Idle) /\ cps' = [cps EXCEPT ![c].status = "failed"]
        <3>1. cps' \in Seq(Checkpoints) /\ Len(cps') = Len(cps)
            BY <2>1, <2>4, CheckpointFields, CheckpointUpdate
        <3> QED
            BY <1>3, <2>1, <2>4, <3>1, IdleTyped, RunAndCheckpointTyped DEF ListSpam, Idle
    <2> QED
        BY <1>3, <2>3, <2>4 DEF ListSpam
<1>4. ASSUME NEW t \in MiningTasks, MineBatch(t) PROVE MiningTypeOK'
    <2> DEFINE batch == BatchOf(run[t].rest)
               merged == Merged(run[t].signals, batch)
               chunks == run[t].chunks + ChunksIn(batch)
               c == run[t].cp
               new == [run[t] EXCEPT !.rest = AfterBatch(@), !.signals = merged,
                                     !.chunks = chunks]
    <2>1. /\ batch \subseteq run[t].rest /\ batch # {} /\ batch \subseteq Messages
          /\ AfterBatch(run[t].rest) \subseteq Messages
          /\ run[t].pc = "mine" /\ c \in DOMAIN cps
        BY <1>4, RunTyped, BatchTaken DEF MineBatch, AfterBatch
    <2>2. merged \in Signals /\ chunks \in Nat
        BY <2>1, RunTyped, MergedTyped, ChunksTyped
    <2>3. new \in Runs /\ new.cp = c
        <3> HIDE DEF merged, chunks
        <3> QED
            BY <2>1, <2>2, RunTyped DEF Runs
    <2>4. Set(t, new)
        BY <1>4 DEF MineBatch
    <2>5. CASE cps' = [cps EXCEPT ![c].last = Oldest(batch),
                                  ![c].saved = Saved(run[t].signals, merged)]
        <3>1. Oldest(batch) \in Messages
            BY <2>1, OldestIsLeast
        <3>2. cps' = [cps EXCEPT ![c] =
                        [cps[c] EXCEPT !.last = Oldest(batch), !.saved = merged]]
            BY <2>1, <2>5
        <3>3. cps' \in Seq(Checkpoints) /\ Len(cps') = Len(cps)
            BY <2>1, <2>2, <3>1, <3>2, CheckpointFields, CheckpointUpdate
        <3> HIDE DEF new, merged, chunks, batch
        <3> QED
            BY <1>4, <2>1, <2>3, <2>4, <3>3, RunAndCheckpointTyped DEF MineBatch
    <2>6. CASE UNCHANGED cps
        <3> HIDE DEF new, merged, chunks, batch
        <3> QED
            BY <1>4, <2>1, <2>3, <2>4, <2>6, RunOnlyTyped DEF MineBatch
    <2> QED
        BY <1>4, <2>5, <2>6 DEF MineBatch
<1>5. ASSUME NEW t \in MiningTasks, MiningDone(t) PROVE MiningTypeOK'
    <2> DEFINE new == [run[t] EXCEPT !.pc = "check", !.todo = Frequent(run[t].signals)]
    <2>1. new \in Runs
        BY RunTyped, RunFields DEF Pcs, Frequent
    <2>3. new.cp \in DOMAIN cps
        BY <1>5, RunTyped DEF MiningDone, Runs
    <2>2. Set(t, new) /\ UNCHANGED <<stored, cps, patterns, rules>>
        BY <1>5 DEF MiningDone
    <2> HIDE DEF new
    <2> QED
        BY <2>1, <2>2, <2>3, RunOnlyTyped
<1>6. ASSUME NEW t \in MiningTasks, NEW c \in DOMAIN cps, StartResume(t, c) PROVE MiningTypeOK'
    <2> DEFINE new == [Idle EXCEPT !.pc = "resume", !.cp = c, !.resumed = TRUE]
    <2>3. c \in Nat
        BY DEF MiningTypeOK
    <2>1. new \in Runs /\ new.cp = c
        BY <2>3, IdleTyped, RunFields DEF Pcs, Idle
    <2>2. Set(t, new) /\ UNCHANGED <<stored, cps, patterns, rules>>
        BY <1>6 DEF StartResume
    <2> HIDE DEF new
    <2> QED
        BY <2>1, <2>2, RunOnlyTyped
<1>7. ASSUME NEW t \in MiningTasks, SetRunning(t) PROVE MiningTypeOK'
    <2> DEFINE c == run[t].cp
               new == [run[t] EXCEPT !.pc = "gather", !.since = cps[c].last,
                                     !.signals = cps[c].saved]
    <2>1. c \in DOMAIN cps
        BY <1>7, RunTyped DEF SetRunning
    <2>2. new \in Runs /\ new.cp = c
        <3>1. new \in Runs
            BY <2>1, RunTyped, CheckpointTyped, RunFields DEF Pcs
        <3>2. new.cp = c
            BY RunTyped DEF Runs
        <3> QED
            BY <3>1, <3>2
    <2>3. cps' \in Seq(Checkpoints) /\ Len(cps') = Len(cps)
        BY <1>7, <2>1, CheckpointFields, CheckpointUpdate DEF SetRunning
    <2>4. Set(t, new) /\ UNCHANGED <<stored, patterns, rules>>
        BY <1>7 DEF SetRunning
    <2> HIDE DEF new
    <2> QED
        BY <2>1, <2>2, <2>3, <2>4, RunAndCheckpointTyped
<1>8. ASSUME NEW t \in MiningTasks, GatherRemaining(t) PROVE MiningTypeOK'
    <2> DEFINE c == run[t].cp
               merged == Merged(run[t].signals, Recent(run[t].since))
               new == [run[t] EXCEPT !.pc = "check", !.signals = merged,
                                     !.todo = Frequent(merged)]
    <2>1. c \in DOMAIN cps /\ merged \in Signals
        BY <1>8, RunTyped, MergedTyped DEF GatherRemaining
    <2>2. new \in Runs /\ new.cp = c
        <3> HIDE DEF merged
        <3>1. new \in Runs
            BY <2>1, RunTyped, RunFields DEF Pcs, Frequent
        <3>2. new.cp = c
            BY RunTyped DEF Runs
        <3> QED
            BY <3>1, <3>2
    <2>3. CASE Set(t, new) /\ UNCHANGED cps
        <3> HIDE DEF new, merged
        <3> QED
            BY <1>8, <2>1, <2>2, <2>3, RunOnlyTyped DEF GatherRemaining
    <2>4. CASE Set(t, Idle) /\ cps' = [cps EXCEPT ![c].status = "failed"]
        <3>1. cps' \in Seq(Checkpoints) /\ Len(cps') = Len(cps)
            BY <2>1, <2>4, CheckpointFields, CheckpointUpdate
        <3> QED
            BY <1>8, <2>4, <3>1, IdleTyped, RunAndCheckpointTyped DEF GatherRemaining, Idle
    <2>5. CASE Set(t, Idle) /\ UNCHANGED cps
        BY <1>8, <2>5, IdleTyped, RunOnlyTyped DEF GatherRemaining, Idle
    <2> QED
        BY <1>8, <2>3, <2>4, <2>5 DEF GatherRemaining
<1>9. ASSUME NEW t \in MiningTasks, NEW f \in Features, CheckPattern(t, f) PROVE MiningTypeOK'
    <2> DEFINE keep == [run[t] EXCEPT !.todo = @ \ {f}]
               take == [run[t] EXCEPT !.todo = @ \ {f}, !.pc = "create", !.feature = {f}]
    <2>1. keep \in Runs /\ keep.cp = run[t].cp /\ take \in Runs /\ take.cp = run[t].cp
        <3>1. run[t] \in Runs /\ run[t].todo \ {f} \subseteq Features
            BY RunTyped
        <3>2. keep \in Runs
            BY <3>1, RunFields DEF Pcs
        <3>3. take \in Runs
            <4>1. "create" \in Pcs /\ {f} \subseteq Features
                BY DEF Pcs
            <4> QED
                BY <3>1, <4>1, RunFields
        <3>4. keep.cp = run[t].cp /\ take.cp = run[t].cp
            BY RunTyped DEF Runs
        <3> QED
            BY <3>2, <3>3, <3>4
    <2>2. Set(t, keep) \/ Set(t, take)
        BY <1>9 DEF CheckPattern
    <2>3. run[t].cp \in DOMAIN cps /\ UNCHANGED <<stored, cps, patterns, rules>>
        BY <1>9, RunTyped DEF CheckPattern
    <2> HIDE DEF keep, take
    <2> QED
        BY <2>1, <2>2, <2>3, RunOnlyTyped
<1>10. ASSUME NEW t \in MiningTasks, NEW f \in Features, CreatePattern(t, f) PROVE MiningTypeOK'
    <2> DEFINE new == [run[t] EXCEPT !.pc = "rule"]
    <2>1. new \in Runs /\ new.cp = run[t].cp
        BY RunTyped DEF Runs
    <2>2. patterns' \in Seq(Features)
        BY <1>10 DEF CreatePattern, MiningTypeOK
    <2>3. run[t].cp \in DOMAIN cps /\ Set(t, new) /\ UNCHANGED <<stored, cps, rules>>
        BY <1>10, RunTyped DEF CreatePattern
    <2> HIDE DEF new
    <2> QED
        BY <2>1, <2>2, <2>3, RunOnlyTyped
<1>11. ASSUME NEW t \in MiningTasks, NEW f \in Features, CreateRule(t, f) PROVE MiningTypeOK'
    <2> DEFINE new == [run[t] EXCEPT !.pc = "check", !.feature = {}]
    <2>1. new \in Runs /\ new.cp = run[t].cp
        <3>1. new \in Runs
            BY RunTyped, RunFields DEF Pcs
        <3>2. new.cp = run[t].cp
            BY RunTyped DEF Runs
        <3> QED
            BY <3>1, <3>2
    <2>2. rules' \in [Features -> Nat]
        BY <1>11 DEF CreateRule, MiningTypeOK
    <2>3. run[t].cp \in DOMAIN cps /\ Set(t, new) /\ UNCHANGED <<stored, cps, patterns>>
        BY <1>11, RunTyped DEF CreateRule
    <2> HIDE DEF new
    <2> QED
        BY <2>1, <2>2, <2>3, RunOnlyTyped
<1>12. ASSUME NEW t \in MiningTasks, Complete(t) PROVE MiningTypeOK'
    <2>1. run[t].cp \in DOMAIN cps
        BY <1>12, RunTyped DEF Complete
    <2>2. cps' \in Seq(Checkpoints) /\ Len(cps') = Len(cps)
        BY <1>12, <2>1, CheckpointFields, CheckpointUpdate DEF Complete
    <2> QED
        BY <1>12, <2>2, IdleTyped, RunAndCheckpointTyped DEF Complete, Idle
<1>13. ASSUME NEW t \in MiningTasks, Stop(t) PROVE MiningTypeOK'
    <2>1. run[t].cp \in DOMAIN cps
        BY <1>13, RunTyped DEF Stop
    <2>2. cps' \in Seq(Checkpoints) /\ Len(cps') = Len(cps)
        BY <1>13, <2>1, CheckpointFields, CheckpointUpdate DEF Stop, MiningTypeOK
    <2> QED
        BY <1>13, <2>2, IdleTyped, RunAndCheckpointTyped DEF Stop, Idle
<1>14. CASE UNCHANGED miningVars
    BY <1>14 DEF miningVars, MiningTypeOK
<1> QED
    BY <1>1, <1>2, <1>3, <1>4, <1>5, <1>6, <1>7, <1>8, <1>9, <1>10, <1>11, <1>12,
       <1>13, <1>14 DEF MiningNext, Mine, Resume, Generate

\* The types of the tables, of the checkpoints and of every call are kept by
\* every step of mine_patterns and resume_from_checkpoint, and a call under way
\* has a checkpoint that exists.
THEOREM MiningTypeCorrect == ASSUME MiningAssumption PROVE MiningSpec => []MiningTypeOK
<1>1. MiningInit => MiningTypeOK
    BY IdleTyped DEF MiningInit, MiningTypeOK, Idle
<1>2. MiningTypeOK /\ [MiningNext]_miningVars => MiningTypeOK'
    BY MiningStepType
<1> QED
    BY <1>1, <1>2, PTL DEF MiningSpec

-----------------------------------------------------------------------------
(* What a run counted *)

\* The signals of a run that counted each message of S once.
Once(S) == [m \in Messages |-> IF m \in S THEN 1 ELSE 0]

\* How a call's record r relates to its checkpoint c.
Mined(r, c) ==
    /\ r.pc \in {"resume", "gather"} => r.resumed
    /\ r.pc \in {"list", "mine"} => ~r.resumed
    /\ r.pc = "list" => r.signals = Once({}) /\ c.last = 0
    /\ r.pc = "mine" =>
          /\ r.rest \subseteq c.window
          /\ r.signals = Once(c.window \ r.rest)
          /\ \A m \in c.window \ r.rest, n \in r.rest : Stamp[m] > Stamp[n]
    /\ r.pc \in {"check", "create", "rule"} /\ ~r.resumed => r.signals = Once(c.window)

\* The saved signals are those of the listed messages down to the position.
Prefix(c) ==
    c.last # 0 => c.saved = Once({m \in c.window : Stamp[m] >= Stamp[c.last]})

Mining(r) == r.pc # "idle" /\ ~r.resumed

\* A checkpoint has one mining run at most; resumed runs may share it.
Owned ==
    \A t, u \in MiningTasks :
        Mining(run[t]) /\ Mining(run[u]) /\ run[t].cp = run[u].cp => t = u

MinerInv ==
    /\ MiningTypeOK
    /\ Owned
    /\ \A t \in MiningTasks : run[t].pc # "idle" => Mined(run[t], cps[run[t].cp])
    /\ \A c \in DOMAIN cps : Prefix(cps[c])

LEMMA MergedOnce ==
    ASSUME NEW S, NEW B, B \cap S = {}
    PROVE  Merged(Once(S), B) = Once(S \cup B)
BY DEF Merged, Once

\* A step of task t that leaves positions, saved signals and windows alone.
LEMMA RunStep ==
    ASSUME MinerInv, MiningTypeOK', NEW t \in MiningTasks, NEW new, Set(t, new),
           DOMAIN cps' = DOMAIN cps,
           \A c \in DOMAIN cps : /\ cps'[c].last = cps[c].last
                                 /\ cps'[c].saved = cps[c].saved
                                 /\ cps'[c].window = cps[c].window,
           new.pc # "idle" => new.cp \in DOMAIN cps /\ Mined(new, cps[new.cp]),
           Mining(new) => Mining(run[t]) /\ new.cp = run[t].cp
    PROVE  MinerInv'
<1>1. /\ run'[t] = new
      /\ \A u \in MiningTasks : u # t => run'[u] = run[u]
    BY DEF MinerInv, MiningTypeOK
<1>2. Owned'
    BY <1>1 DEF MinerInv, Owned
<1>3. ASSUME NEW u \in MiningTasks, run'[u].pc # "idle"
      PROVE  Mined(run'[u], cps'[run'[u].cp])
    <2>1. run'[u].cp \in DOMAIN cps /\ Mined(run'[u], cps[run'[u].cp])
        <3>1. CASE u = t
            BY <1>1, <1>3, <3>1
        <3>2. CASE u # t
            BY <1>1, <1>3, <3>2, RunTyped DEF MinerInv
        <3> QED
            BY <3>1, <3>2
    <2> QED
        BY <2>1 DEF Mined
<1>4. ASSUME NEW c \in DOMAIN cps' PROVE Prefix(cps'[c])
    <2>1. c \in DOMAIN cps /\ Prefix(cps[c])
        BY DEF MinerInv
    <2> QED
        BY <2>1 DEF Prefix
<1> QED
    BY <1>2, <1>3, <1>4 DEF MinerInv

\* Writing the status of a checkpoint leaves the rest of it alone.
LEMMA StatusStep ==
    ASSUME MiningTypeOK, NEW c \in DOMAIN cps, NEW s,
           cps' = [cps EXCEPT ![c].status = s]
    PROVE  /\ DOMAIN cps' = DOMAIN cps
           /\ \A d \in DOMAIN cps : /\ cps'[d].last = cps[d].last
                                    /\ cps'[d].saved = cps[d].saved
                                    /\ cps'[d].window = cps[d].window
<1>1. cps[c] \in Checkpoints /\ DOMAIN cps' = DOMAIN cps
    BY CheckpointTyped DEF MiningTypeOK
<1> QED
    BY <1>1 DEF Checkpoints

\* A step of task t, mining, that rewrites its own checkpoint.
LEMMA OwnCheckpointStep ==
    ASSUME MinerInv, MiningTypeOK', NEW t \in MiningTasks, NEW new, NEW cp, Set(t, new),
           Mining(run[t]), Mining(new), new.cp = run[t].cp,
           cps' = [cps EXCEPT ![run[t].cp] = cp],
           Mined(new, cp), Prefix(cp)
    PROVE  MinerInv'
<1> DEFINE c == run[t].cp
<1>1. /\ run'[t] = new
      /\ \A u \in MiningTasks : u # t => run'[u] = run[u]
    BY DEF MinerInv, MiningTypeOK
<1>2. c \in DOMAIN cps /\ cps'[c] = cp /\ \A d \in DOMAIN cps : d # c => cps'[d] = cps[d]
    BY RunTyped DEF MinerInv, Mining
<1>3. Owned'
    BY <1>1 DEF MinerInv, Owned
<1>4. ASSUME NEW u \in MiningTasks, run'[u].pc # "idle"
      PROVE  Mined(run'[u], cps'[run'[u].cp])
    <2>1. CASE u = t
        BY <1>1, <1>2, <2>1
    <2>2. CASE u # t
        <3>1. run'[u] = run[u] /\ run[u].cp \in DOMAIN cps /\ Mined(run[u], cps[run[u].cp])
            BY <1>1, <1>4, <2>2, RunTyped DEF MinerInv
        <3>2. CASE run[u].cp # c
            BY <1>2, <3>1, <3>2
        <3>3. CASE run[u].cp = c
            <4>1. run[u].resumed
                BY <1>4, <2>2, <3>1, <3>3 DEF MinerInv, Owned, Mining
            <4> QED
                BY <3>1, <4>1 DEF Mined
        <3> QED
            BY <3>2, <3>3
    <2> QED
        BY <2>1, <2>2
<1>5. ASSUME NEW d \in DOMAIN cps' PROVE Prefix(cps'[d])
    BY <1>2 DEF MinerInv
<1> QED
    BY <1>3, <1>4, <1>5 DEF MinerInv

\* A batch keeps the counted messages a prefix of the list.
LEMMA BatchCounts ==
    ASSUME MiningAssumption, MiningTypeOK, NEW t \in MiningTasks,
           At(t, "mine"), Mined(run[t], cps[run[t].cp]), run[t].rest # {}
    PROVE  LET w == cps[run[t].cp].window
               batch == BatchOf(run[t].rest)
               after == AfterBatch(run[t].rest)
           IN  /\ after \subseteq w
               /\ Merged(run[t].signals, batch) = Once(w \ after)
               /\ \A m \in w \ after, n \in after : Stamp[m] > Stamp[n]
               /\ w \ after = {m \in w : Stamp[m] >= Stamp[Oldest(batch)]}
<1> DEFINE w == cps[run[t].cp].window
           rest == run[t].rest
           batch == BatchOf(rest)
           after == AfterBatch(rest)
<1>1. /\ rest \subseteq w /\ run[t].signals = Once(w \ rest)
      /\ \A m \in w \ rest, n \in rest : Stamp[m] > Stamp[n]
    BY DEF Mined
<1>2. rest \subseteq Messages /\ w \subseteq Messages
    BY RunTyped, CheckpointTyped
<1>3. /\ batch \subseteq rest /\ batch # {} /\ after = rest \ batch
      /\ \A m \in batch, n \in after : Stamp[m] > Stamp[n]
    BY <1>2, BatchTaken
<1>4. Oldest(batch) \in batch /\ \A n \in batch : Stamp[Oldest(batch)] <= Stamp[n]
    BY <1>2, <1>3, OldestIsLeast
<1> HIDE DEF w, rest, batch, after
<1>5. Merged(run[t].signals, batch) = Once(w \ after)
    <2>1. batch \cap (w \ rest) = {} /\ (w \ rest) \cup batch = w \ after
        BY <1>1, <1>3
    <2> QED
        BY <1>1, <2>1, MergedOnce
<1>6. \A m \in w \ after, n \in after : Stamp[m] > Stamp[n]
    BY <1>1, <1>3
<1>7. ASSUME NEW m \in w PROVE m \notin after <=> Stamp[m] >= Stamp[Oldest(batch)]
    <2>1. Stamp[m] \in Nat /\ Stamp[Oldest(batch)] \in Nat
        BY <1>2, <1>3, <1>4, Stamps
    <2>2. m \in after => Stamp[Oldest(batch)] > Stamp[m]
        BY <1>3, <1>4
    <2>3. m \in batch => Stamp[m] >= Stamp[Oldest(batch)]
        BY <1>4, <2>1
    <2>4. m \notin rest => Stamp[m] > Stamp[Oldest(batch)]
        BY <1>1, <1>3, <1>4
    <2> QED
        BY <1>3, <2>1, <2>2, <2>3, <2>4
<1>8. w \ after = {m \in w : Stamp[m] >= Stamp[Oldest(batch)]}
    BY <1>7
<1> QED
    BY <1>1, <1>3, <1>5, <1>6, <1>8 DEF w, rest, batch, after

LEMMA InitMinerInv == MiningInit => MinerInv
<1> SUFFICES ASSUME MiningInit PROVE MinerInv
    OBVIOUS
<1>1. MiningTypeOK
    BY IdleTyped DEF MiningInit, MiningTypeOK, Idle
<1>2. DOMAIN cps = {} /\ \A t \in MiningTasks : run[t].pc = "idle"
    BY DEF MiningInit, Idle
<1> QED
    BY <1>1, <1>2 DEF MinerInv, Owned, Mining

LEMMA MinerStep ==
    ASSUME MiningAssumption, MinerInv, [MiningNext]_miningVars
    PROVE  MinerInv'
<1>0. MiningTypeOK /\ MiningTypeOK' /\ run \in [MiningTasks -> Runs]
    BY MiningStepType DEF MinerInv, MiningTypeOK
<1>1. ASSUME NEW m \in Messages, Ingest(m) PROVE MinerInv'
    BY <1>0, <1>1 DEF Ingest, MinerInv, Owned
<1>2. ASSUME NEW t \in MiningTasks, StartMining(t) PROVE MinerInv'
    <2> DEFINE k == Len(cps) + 1
    <2>1. /\ cps' = Append(cps, NewCheckpoint) /\ k \in Nat /\ k \notin DOMAIN cps
          /\ DOMAIN cps' = DOMAIN cps \cup {k} /\ cps'[k] = NewCheckpoint
          /\ \A c \in DOMAIN cps : cps'[c] = cps[c]
        BY <1>0, <1>2 DEF StartMining, MiningTypeOK
    <2>2. PICK since \in SinceIds :
            Set(t, [Idle EXCEPT !.pc = "list", !.cp = k, !.since = since])
        BY <1>2 DEF StartMining
    <2>3. /\ run'[t].pc = "list" /\ run'[t].cp = k /\ ~run'[t].resumed
          /\ run'[t].signals = Once({})
        BY <1>0, <2>2 DEF Idle, NoSignals, Once
    <2>4. ASSUME NEW u \in MiningTasks, u # t PROVE run'[u] = run[u]
        BY <1>0, <2>2, <2>4
    <2>5. ASSUME NEW u \in MiningTasks, u # t, run[u].pc # "idle" PROVE run[u].cp # k
        BY <1>0, <2>1, <2>5, RunTyped
    <2> HIDE DEF k
    <2>6. Owned'
        BY <2>3, <2>4, <2>5 DEF MinerInv, Owned, Mining
    <2>7. ASSUME NEW u \in MiningTasks, run'[u].pc # "idle"
          PROVE  Mined(run'[u], cps'[run'[u].cp])
        <3>1. CASE u = t
            BY <2>1, <2>3, <3>1 DEF Mined
        <3>2. CASE u # t
            BY <1>0, <2>1, <2>4, <2>7, <3>2, RunTyped DEF MinerInv
        <3> QED
            BY <3>1, <3>2
    <2>8. ASSUME NEW c \in DOMAIN cps' PROVE Prefix(cps'[c])
        <3>1. CASE c = k
            BY <2>1, <3>1 DEF Prefix
        <3>2. CASE c # k
            BY <2>1, <3>2 DEF MinerInv
        <3> QED
            BY <3>1, <3>2
    <2> QED
        BY <1>0, <2>6, <2>7, <2>8 DEF MinerInv
<1>3. ASSUME NEW t \in MiningTasks, ListSpam(t) PROVE MinerInv'
    <2> DEFINE list == Recent(run[t].since)
               c == run[t].cp
               new == [run[t] EXCEPT !.pc = "mine", !.rest = list]
               cp == [cps[c] EXCEPT !.window = list]
    <2>1. /\ run[t].pc = "list" /\ c \in DOMAIN cps /\ ~run[t].resumed
          /\ run[t].signals = Once({}) /\ cps[c].last = 0
        BY <1>0, <1>3, RunTyped DEF ListSpam, MinerInv, Mined
    <2>2. CASE Set(t, new) /\ cps' = [cps EXCEPT ![c].window = list]
        <3>1. cps' = [cps EXCEPT ![c] = cp] /\ cp.last = 0 /\ cp.window = list
            BY <1>0, <2>1, <2>2, CheckpointTyped DEF Checkpoints
        <3>2. /\ new.pc = "mine" /\ new.cp = c /\ ~new.resumed /\ new.rest = list
              /\ new.signals = Once({})
            BY <1>0, <2>1 DEF Runs
        <3> HIDE DEF new, cp, list
        <3>3. list \ list = {}
            OBVIOUS
        <3>4. Mined(new, cp)
            BY <3>1, <3>2, <3>3 DEF Mined
        <3>5. Prefix(cp)
            BY <3>1 DEF Prefix
        <3>6. Mining(new) /\ Mining(run[t])
            BY <2>1, <3>2 DEF Mining
        <3> QED
            BY <1>0, <2>2, <3>1, <3>2, <3>4, <3>5, <3>6, OwnCheckpointStep
    <2>3. CASE Set(t, Idle) /\ cps' = [cps EXCEPT ![c].status = "failed"]
        BY <1>0, <2>1, <2>3, StatusStep, RunStep DEF Idle, Mining
    <2> QED
        BY <1>3, <2>2, <2>3 DEF ListSpam
<1>4. ASSUME NEW t \in MiningTasks, MineBatch(t) PROVE MinerInv'
    <2> DEFINE c == run[t].cp
               batch == BatchOf(run[t].rest)
               after == AfterBatch(run[t].rest)
               merged == Merged(run[t].signals, batch)
               chunks == run[t].chunks + ChunksIn(batch)
               new == [run[t] EXCEPT !.rest = AfterBatch(@), !.signals = merged,
                                     !.chunks = chunks]
               cp == [cps[c] EXCEPT !.last = Oldest(batch), !.saved = merged]
    <2>1. /\ run[t].pc = "mine" /\ run[t].rest # {} /\ c \in DOMAIN cps
          /\ ~run[t].resumed /\ Mined(run[t], cps[c]) /\ Set(t, new)
        BY <1>0, <1>4, RunTyped DEF MineBatch, MinerInv, Mined
    <2>2. /\ after \subseteq cps[c].window
          /\ merged = Once(cps[c].window \ after)
          /\ \A m \in cps[c].window \ after, n \in after : Stamp[m] > Stamp[n]
          /\ cps[c].window \ after =
                {m \in cps[c].window : Stamp[m] >= Stamp[Oldest(batch)]}
        BY <1>0, <2>1, BatchCounts
    <2> HIDE DEF merged, after, batch, chunks
    <2>3. /\ new.pc = "mine" /\ new.cp = c /\ ~new.resumed /\ new.rest = after
          /\ new.signals = merged
        BY <1>0, <2>1 DEF Runs, after
    <2>4. Mining(new) /\ Mining(run[t])
        BY <2>1, <2>3 DEF Mining
    <2>5. CASE cps' = [cps EXCEPT ![c].last = Oldest(batch),
                                  ![c].saved = Saved(run[t].signals, merged)]
        <3>4. cps' = [cps EXCEPT ![c] = cp]
            BY <2>1, <2>5
        <3>1. /\ cp.last = Oldest(batch) /\ cp.saved = merged
              /\ cp.window = cps[c].window
            <4>1. cps[c] \in Checkpoints
                BY <1>0, <2>1, CheckpointTyped
            <4> QED
                BY <4>1 DEF Checkpoints
        <3> HIDE DEF new, cp
        <3>2. Mined(new, cp)
            BY <2>2, <2>3, <3>1 DEF Mined
        <3>3. Prefix(cp)
            BY <2>2, <3>1 DEF Prefix
        <3> QED
            BY <1>0, <2>1, <2>3, <2>4, <3>2, <3>3, <3>4, OwnCheckpointStep
    <2>6. CASE UNCHANGED cps
        <3> HIDE DEF new
        <3>1. Mined(new, cps[c])
            BY <2>2, <2>3 DEF Mined
        <3> QED
            BY <1>0, <2>1, <2>3, <2>4, <2>6, <3>1, RunStep
    <2> QED
        BY <1>4, <2>5, <2>6 DEF MineBatch, merged, batch, chunks
<1>5. ASSUME NEW t \in MiningTasks, MiningDone(t) PROVE MinerInv'
    <2> DEFINE c == run[t].cp
               new == [run[t] EXCEPT !.pc = "check", !.todo = Frequent(run[t].signals)]
    <2>1. /\ run[t].pc = "mine" /\ c \in DOMAIN cps /\ ~run[t].resumed
          /\ run[t].rest = {} /\ run[t].signals = Once(cps[c].window \ {})
        BY <1>0, <1>5, RunTyped DEF MiningDone, MinerInv, Mined
    <2>2. new.pc = "check" /\ new.cp = c /\ ~new.resumed /\ new.signals = run[t].signals
        BY <1>0, <2>1 DEF Runs
    <2>3. Set(t, new) /\ UNCHANGED cps
        BY <1>5 DEF MiningDone
    <2> HIDE DEF new
    <2>4. cps[c].window \ {} = cps[c].window
        OBVIOUS
    <2>5. Mined(new, cps[c])
        BY <2>1, <2>2, <2>4 DEF Mined
    <2> QED
        BY <1>0, <2>1, <2>2, <2>3, <2>5, RunStep DEF Mining
<1>6. ASSUME NEW t \in MiningTasks, NEW c \in DOMAIN cps, StartResume(t, c) PROVE MinerInv'
    <2> DEFINE new == [Idle EXCEPT !.pc = "resume", !.cp = c, !.resumed = TRUE]
    <2>1. new.pc = "resume" /\ new.cp = c /\ new.resumed
        BY DEF Idle
    <2>2. Set(t, new) /\ UNCHANGED cps
        BY <1>6 DEF StartResume
    <2> HIDE DEF new
    <2>3. Mined(new, cps[c])
        BY <2>1 DEF Mined
    <2> QED
        BY <1>0, <2>1, <2>2, <2>3, RunStep DEF Mining
<1>7. ASSUME NEW t \in MiningTasks, SetRunning(t) PROVE MinerInv'
    <2> DEFINE c == run[t].cp
               new == [run[t] EXCEPT !.pc = "gather", !.since = cps[c].last,
                                     !.signals = cps[c].saved]
    <2>1. /\ run[t].pc = "resume" /\ c \in DOMAIN cps /\ run[t].resumed
          /\ Set(t, new) /\ cps' = [cps EXCEPT ![c].status = "running"]
        BY <1>0, <1>7, RunTyped DEF SetRunning, MinerInv, Mined
    <2>2. new.pc = "gather" /\ new.cp = c /\ new.resumed
        BY <1>0, <2>1 DEF Runs
    <2> HIDE DEF new
    <2>3. Mined(new, cps[c])
        BY <2>2 DEF Mined
    <2> QED
        BY <1>0, <2>1, <2>2, <2>3, StatusStep, RunStep DEF Mining
<1>8. ASSUME NEW t \in MiningTasks, GatherRemaining(t) PROVE MinerInv'
    <2> DEFINE c == run[t].cp
               merged == Merged(run[t].signals, Recent(run[t].since))
               new == [run[t] EXCEPT !.pc = "check", !.signals = merged,
                                     !.todo = Frequent(merged)]
    <2>1. run[t].pc = "gather" /\ c \in DOMAIN cps /\ run[t].resumed
        BY <1>0, <1>8, RunTyped DEF GatherRemaining, MinerInv, Mined
    <2>2. CASE Set(t, new) /\ UNCHANGED cps
        <3>1. new.pc = "check" /\ new.cp = c /\ new.resumed
            BY <1>0, <2>1 DEF Runs
        <3> HIDE DEF new
        <3>2. Mined(new, cps[c])
            BY <3>1 DEF Mined
        <3> QED
            BY <1>0, <2>1, <2>2, <3>1, <3>2, RunStep DEF Mining
    <2>3. CASE Set(t, Idle) /\ cps' = [cps EXCEPT ![c].status = "failed"]
        BY <1>0, <2>1, <2>3, StatusStep, RunStep DEF Idle, Mining
    <2>4. CASE Set(t, Idle) /\ UNCHANGED cps
        BY <1>0, <2>4, RunStep DEF Idle, Mining
    <2> QED
        BY <1>8, <2>2, <2>3, <2>4 DEF GatherRemaining
<1>9. ASSUME NEW t \in MiningTasks, NEW f \in Features,
             CheckPattern(t, f) \/ CreatePattern(t, f) \/ CreateRule(t, f)
      PROVE  MinerInv'
    <2>1. /\ run[t].pc \in {"check", "create", "rule"} /\ run[t].cp \in DOMAIN cps
          /\ Mined(run[t], cps[run[t].cp]) /\ UNCHANGED cps
        BY <1>0, <1>9, RunTyped DEF CheckPattern, CreatePattern, CreateRule, MinerInv
    <2>2. /\ run'[t].pc \in {"check", "create", "rule"}
          /\ run'[t].cp = run[t].cp /\ run'[t].resumed = run[t].resumed
          /\ run'[t].signals = run[t].signals
          /\ Set(t, run'[t])
        <3>1. CASE CheckPattern(t, f)
            BY <1>0, <3>1 DEF CheckPattern, Runs
        <3>2. CASE CreatePattern(t, f)
            BY <1>0, <3>2 DEF CreatePattern, Runs
        <3>3. CASE CreateRule(t, f)
            BY <1>0, <3>3 DEF CreateRule, Runs
        <3> QED
            BY <1>9, <3>1, <3>2, <3>3
    <2> DEFINE new == run'[t]
    <2>3. /\ new.pc \in {"check", "create", "rule"} /\ Set(t, new)
          /\ new.cp = run[t].cp /\ new.resumed = run[t].resumed
          /\ new.signals = run[t].signals
        BY <2>2
    <2> HIDE DEF new
    <2>4. Mined(new, cps[new.cp])
        BY <2>1, <2>3 DEF Mined
    <2>5. Mining(new) => Mining(run[t])
        BY <2>1, <2>3 DEF Mining
    <2> QED
        BY <1>0, <2>1, <2>3, <2>4, <2>5, RunStep
<1>10. ASSUME NEW t \in MiningTasks, Complete(t) \/ Stop(t) PROVE MinerInv'
    <2>1. /\ run[t].cp \in DOMAIN cps /\ Set(t, Idle)
          /\ \/ UNCHANGED cps
             \/ cps' = [cps EXCEPT ![run[t].cp].status = "completed"]
             \/ cps' = [cps EXCEPT ![run[t].cp].status = "failed"]
        BY <1>0, <1>10, RunTyped DEF Complete, Stop
    <2>2. CASE UNCHANGED cps
        BY <1>0, <2>1, <2>2, RunStep DEF Idle, Mining
    <2>3. CASE cps' = [cps EXCEPT ![run[t].cp].status = "completed"]
        BY <1>0, <2>1, <2>3, StatusStep, RunStep DEF Idle, Mining
    <2>4. CASE cps' = [cps EXCEPT ![run[t].cp].status = "failed"]
        BY <1>0, <2>1, <2>4, StatusStep, RunStep DEF Idle, Mining
    <2> QED
        BY <2>1, <2>2, <2>3, <2>4
<1>11. CASE UNCHANGED miningVars
    BY <1>0, <1>11 DEF miningVars, MinerInv, Owned
<1> QED
    BY <1>1, <1>2, <1>3, <1>4, <1>5, <1>6, <1>7, <1>8, <1>9, <1>10, <1>11
    DEF MiningNext, Mine, Resume, Generate

LEMMA MinerInvAlways == ASSUME MiningAssumption PROVE MiningSpec => []MinerInv
<1>1. MinerInv /\ [MiningNext]_miningVars => MinerInv'
    BY MinerStep
<1> QED
    BY <1>1, InitMinerInv, PTL DEF MiningSpec

\* However the list splits into chunks and parallel batches, and whatever other
\* runs do, a mining run of mine_patterns that reaches pattern generation counted
\* each message it listed once and no other.
THEOREM MiningCountsOnceAlways ==
    ASSUME MiningAssumption PROVE MiningSpec => []MiningCountsOnce
<1>1. MinerInv => MiningCountsOnce
    <2> SUFFICES ASSUME MinerInv, NEW t \in MiningTasks, Generating(t), ~run[t].resumed
                 PROVE  /\ CountsOnce(run[t].signals, cps[run[t].cp].window)
                        /\ \A m \in Messages \ cps[run[t].cp].window :
                              run[t].signals[m] = 0
        BY DEF MiningCountsOnce
    <2>1. run[t].signals = Once(cps[run[t].cp].window)
        BY DEF MinerInv, Mined, Generating
    <2>2. cps[run[t].cp].window \subseteq Messages
        BY RunTyped, CheckpointTyped DEF MinerInv, Generating
    <2> QED
        BY <2>1, <2>2 DEF Once, CountsOnce
<1> QED
    BY <1>1, MinerInvAlways, PTL

\* Whenever a checkpoint is saved between batches, it holds exactly the signals
\* of the listed messages down to its last_processed_message_id: a run that
\* continues from it needs the older ones and no other.
THEOREM SavedIsPrefixAlways ==
    ASSUME MiningAssumption PROVE MiningSpec => []SavedIsPrefix
<1>1. MinerInv => SavedIsPrefix
    <2> SUFFICES ASSUME MinerInv, NEW c \in DOMAIN cps, cps[c].last # 0, NEW m \in Messages
                 PROVE  cps[c].saved[m] =
                            IF m \in cps[c].window /\ Stamp[m] >= Stamp[cps[c].last]
                            THEN 1 ELSE 0
        BY DEF SavedIsPrefix
    <2> DEFINE S == {n \in cps[c].window : Stamp[n] >= Stamp[cps[c].last]}
    <2>1. cps[c].saved = Once(S)
        BY DEF MinerInv, Prefix
    <2>2. m \in S <=> m \in cps[c].window /\ Stamp[m] >= Stamp[cps[c].last]
        OBVIOUS
    <2> HIDE DEF S
    <2> QED
        BY <2>1, <2>2 DEF Once
<1> QED
    BY <1>1, MinerInvAlways, PTL

-----------------------------------------------------------------------------
(* How many patterns one feature gets *)

Copies(f) == {i \in DOMAIN patterns : patterns[i] = f}

\* The calls that found no pattern of f and are about to create one.
Pending(f) == {t \in MiningTasks : run[t].pc = "create" /\ f \in run[t].feature}

\* The check for duplicates sees the whole table.
AllListed == Len(patterns) <= ListLimit

\* No call finds none once there is one.
CopiesInv ==
    \A f \in Features : Cardinality(Copies(f)) + Cardinality(Pending(f)) <= Cardinality(MiningTasks)

LEMMA CountsTyped ==
    ASSUME MiningTypeOK, IsFiniteSet(MiningTasks), NEW f
    PROVE  /\ IsFiniteSet(Copies(f)) /\ Cardinality(Copies(f)) \in Nat
           /\ IsFiniteSet(Pending(f)) /\ Cardinality(Pending(f)) \in Nat
           /\ Cardinality(MiningTasks) \in Nat /\ Cardinality(Pending(f)) <= Cardinality(MiningTasks)
<1>1. DOMAIN patterns = 1..Len(patterns) /\ Len(patterns) \in Nat
    BY DEF MiningTypeOK
<1>2. IsFiniteSet(DOMAIN patterns)
    BY <1>1, FS_Interval
<1>3. Copies(f) \subseteq DOMAIN patterns /\ Pending(f) \subseteq MiningTasks
    BY DEF Copies, Pending
<1> QED
    BY <1>2, <1>3, FS_Subset, FS_CardinalityType

\* A step that creates no pattern and after which no more calls are about to.
LEMMA NoMorePending ==
    ASSUME MiningTypeOK, MiningTypeOK', IsFiniteSet(MiningTasks), CopiesInv, patterns' = patterns,
           \A t \in MiningTasks : run'[t] = run[t] \/ run'[t].pc # "create"
    PROVE  CopiesInv'
<1> SUFFICES ASSUME NEW f \in Features
             PROVE  Cardinality(Copies(f)') + Cardinality(Pending(f)') <= Cardinality(MiningTasks)
    BY DEF CopiesInv
<1>1. Copies(f)' = Copies(f) /\ Pending(f)' \subseteq Pending(f)
    BY DEF Copies, Pending
<1>2. /\ Cardinality(Pending(f)') <= Cardinality(Pending(f))
      /\ Cardinality(Pending(f)') \in Nat /\ Cardinality(Pending(f)) \in Nat
    <2>1. IsFiniteSet(Pending(f)) /\ Cardinality(Pending(f)) \in Nat
        BY CountsTyped
    <2> QED
        BY <1>1, <2>1, FS_Subset, FS_CardinalityType
<1>3. /\ Cardinality(Copies(f)) \in Nat /\ Cardinality(MiningTasks) \in Nat
      /\ Cardinality(Copies(f)) + Cardinality(Pending(f)) <= Cardinality(MiningTasks)
    BY CountsTyped DEF CopiesInv
<1>4. Cardinality(Copies(f)') = Cardinality(Copies(f))
    BY <1>1
<1> QED
    BY <1>2, <1>3, <1>4

LEMMA CheckCopies ==
    ASSUME MiningAssumption, MiningTypeOK, MiningTypeOK', IsFiniteSet(MiningTasks), CopiesInv, AllListed,
           NEW t \in MiningTasks, NEW g \in Features, CheckPattern(t, g)
    PROVE  CopiesInv'
<1>1. /\ patterns' = patterns /\ run[t].pc = "check" /\ run[t] \in Runs
      /\ \A u \in MiningTasks \ {t} : run'[u] = run[u]
    BY RunTyped DEF CheckPattern, At, MiningTypeOK
<1>2. CASE g \in ListedPatterns
    <2>1. run'[t] = [run[t] EXCEPT !.todo = @ \ {g}]
        BY <1>2 DEF CheckPattern, MiningTypeOK
    <2>2. run'[t].pc # "create"
        BY <1>1, <2>1 DEF Runs
    <2> QED
        BY <1>1, <2>2, NoMorePending
<1>3. CASE g \notin ListedPatterns
    <2> SUFFICES ASSUME NEW f \in Features
                 PROVE  Cardinality(Copies(f)') + Cardinality(Pending(f)') <= Cardinality(MiningTasks)
        BY DEF CopiesInv
    <2>1. run'[t].feature = {g} /\ Copies(f)' = Copies(f)
        BY <1>1, <1>3 DEF CheckPattern, MiningTypeOK, Runs, Copies
    <2>2. CASE f = g
        <3>1. \A i \in DOMAIN patterns : i <= ListLimit
            <4>1. /\ DOMAIN patterns = 1..Len(patterns) /\ Len(patterns) \in Nat
                  /\ ListLimit \in Nat /\ Len(patterns) <= ListLimit
                BY DEF AllListed, MiningTypeOK, MiningAssumption
            <4> QED
                BY <4>1
        <3>2. Copies(f) = {}
            BY <1>3, <2>2, <3>1 DEF ListedPatterns, Copies
        <3>3. Cardinality(Copies(f)') = 0
            BY <2>1, <3>2, FS_EmptySet
        <3>4. Cardinality(Pending(f)') \in Nat /\ Cardinality(Pending(f)') <= Cardinality(MiningTasks)
            <4>1. Pending(f)' \subseteq MiningTasks
                BY DEF Pending
            <4> QED
                BY <4>1, FS_Subset, FS_CardinalityType
        <3> QED
            BY <3>3, <3>4
    <2>3. CASE f # g
        <3>1. Pending(f)' = Pending(f)
            BY <1>1, <2>1, <2>3 DEF Pending
        <3>2. Cardinality(Copies(f)) + Cardinality(Pending(f)) <= Cardinality(MiningTasks)
            BY DEF CopiesInv
        <3> QED
            BY <2>1, <3>1, <3>2
    <2> QED
        BY <2>2, <2>3
<1> QED
    BY <1>2, <1>3

\* A pattern more in front of the others.
LEMMA OneCopyMore ==
    ASSUME MiningTypeOK, IsFiniteSet(MiningTasks), NEW f, NEW g \in Features, patterns' = <<g>> \o patterns
    PROVE  Cardinality(Copies(f)') = IF f = g THEN Cardinality(Copies(f)) + 1
                                              ELSE Cardinality(Copies(f))
<1> DEFINE n == Len(patterns)
           Moved == {i \in 2..(n + 1) : patterns[i - 1] = f}
           shift == [i \in Copies(f) |-> i + 1]
<1>1. n \in Nat /\ DOMAIN patterns = 1..n /\ patterns \in Seq(Features) /\ <<g>> \in Seq(Features)
    BY DEF MiningTypeOK
<1>2. /\ DOMAIN patterns' = 1..(n + 1) /\ patterns'[1] = g
      /\ \A i \in 2..(n + 1) : patterns'[i] = patterns[i - 1]
    BY <1>1
<1>3. Copies(f) = {i \in 1..n : patterns[i] = f}
    BY <1>1 DEF Copies
<1>4. Copies(f)' = {i \in 1..(n + 1) : patterns'[i] = f}
    BY <1>2 DEF Copies
<1> HIDE DEF n
<1>5. Copies(f)' = IF f = g THEN Moved \cup {1} ELSE Moved
    <2>1. \A i \in 1..(n + 1) : i = 1 \/ i \in 2..(n + 1)
        BY <1>1
    <2>2. \A i \in 2..(n + 1) : i \in 1..(n + 1) /\ i # 1
        BY <1>1
    <2>3. 1 \in 1..(n + 1)
        BY <1>1
    <2> QED
        BY <1>2, <1>4, <2>1, <2>2, <2>3
<1>6. shift \in Bijection(Copies(f), Moved)
    <2>1. \A i \in Copies(f) : i \in Int /\ shift[i] = i + 1 /\ i + 1 \in Moved
        BY <1>1, <1>3
    <2>2. \A i \in Moved : i - 1 \in Copies(f) /\ shift[i - 1] = i
        BY <1>1, <1>3
    <2>3. shift \in [Copies(f) -> Moved]
        BY <2>1
    <2>4. \A a, b \in Copies(f) : shift[a] = shift[b] => a = b
        BY <2>1
    <2> HIDE DEF shift, Moved
    <2> QED
        BY <2>2, <2>3, <2>4 DEF Bijection, Injection, Surjection, IsInjective
<1>7. IsFiniteSet(Copies(f)) /\ Cardinality(Copies(f)) \in Nat
    BY CountsTyped
<1>8. IsFiniteSet(Moved) /\ Cardinality(Moved) = Cardinality(Copies(f))
    BY <1>6, <1>7, FS_Bijection DEF ExistsBijection
<1>9. 1 \notin Moved
    OBVIOUS
<1> HIDE DEF Moved
<1>10. Cardinality(Moved \cup {1}) = Cardinality(Moved) + 1
    BY <1>8, <1>9, FS_AddElement
<1> QED
    BY <1>5, <1>8, <1>10

LEMMA CreateCopies ==
    ASSUME MiningTypeOK, MiningTypeOK', IsFiniteSet(MiningTasks), CopiesInv,
           NEW t \in MiningTasks, NEW g \in Features, CreatePattern(t, g)
    PROVE  CopiesInv'
<1>1. /\ patterns' = <<g>> \o patterns /\ run[t].pc = "create" /\ g \in run[t].feature
      /\ \A u \in MiningTasks \ {t} : run'[u] = run[u]
    BY DEF CreatePattern, At, MiningTypeOK
<1>2. run'[t].pc = "rule"
    BY RunTyped DEF CreatePattern, MiningTypeOK, Runs
<1> SUFFICES ASSUME NEW f \in Features
             PROVE  Cardinality(Copies(f)') + Cardinality(Pending(f)') <= Cardinality(MiningTasks)
    BY DEF CopiesInv
<1>3. Pending(f)' = Pending(f) \ {t}
    BY <1>1, <1>2 DEF Pending
<1>4. /\ IsFiniteSet(Pending(f)) /\ Cardinality(Pending(f)) \in Nat
      /\ Cardinality(Copies(f)) \in Nat /\ Cardinality(MiningTasks) \in Nat
      /\ Cardinality(Copies(f)) + Cardinality(Pending(f)) <= Cardinality(MiningTasks)
    BY CountsTyped DEF CopiesInv
<1>5. CASE f = g
    <2>1. t \in Pending(f)
        BY <1>1, <1>5 DEF Pending
    <2>2. Cardinality(Pending(f) \ {t}) = Cardinality(Pending(f)) - 1
        BY <1>4, <2>1, FS_RemoveElement
    <2>3. Cardinality(Copies(f)') = Cardinality(Copies(f)) + 1
        BY <1>1, <1>5, OneCopyMore
    <2>4. Cardinality(Pending(f)') = Cardinality(Pending(f)) - 1
        BY <1>3, <2>2
    <2> QED
        BY <1>4, <2>3, <2>4
<1>6. CASE f # g
    <2>1. Cardinality(Copies(f)') = Cardinality(Copies(f))
        BY <1>1, <1>6, OneCopyMore
    <2>2. /\ Cardinality(Pending(f)') <= Cardinality(Pending(f))
          /\ Cardinality(Pending(f)') \in Nat
        BY <1>3, <1>4, FS_Subset, FS_CardinalityType
    <2> QED
        BY <1>4, <2>1, <2>2
<1> QED
    BY <1>5, <1>6

LEMMA CopiesStep ==
    ASSUME MiningAssumption, MiningTypeOK, MiningTypeOK', IsFiniteSet(MiningTasks), CopiesInv, AllListed, [MiningNext]_miningVars
    PROVE  CopiesInv'
<1>1. ASSUME NEW m \in Messages, Ingest(m) PROVE CopiesInv'
    BY <1>1, NoMorePending DEF Ingest
<1>2. ASSUME NEW t \in MiningTasks, Mine(t) \/ Resume(t) \/ Complete(t) \/ Stop(t)
      PROVE  CopiesInv'
    <2>1. patterns' = patterns /\ \A u \in MiningTasks \ {t} : run'[u] = run[u]
        BY <1>2 DEF Mine, StartMining, ListSpam, MineBatch, MiningDone, Resume, StartResume,
                    SetRunning, GatherRemaining, Complete, Stop, MiningTypeOK
    <2>2. run'[t].pc # "create"
        <3>1. run[t] \in Runs /\ Idle.pc = "idle" /\ \A new : Set(t, new) => run'[t] = new
            BY RunTyped DEF MiningTypeOK, Idle
        <3>2. CASE StartMining(t) \/ \E c \in DOMAIN cps : StartResume(t, c)
            <4>1. CASE StartMining(t)
                <5>1. PICK since \in SinceIds :
                          Set(t, [Idle EXCEPT !.pc = "list", !.cp = Len(cps) + 1, !.since = since])
                    BY <4>1 DEF StartMining
                <5> DEFINE new == [Idle EXCEPT !.pc = "list", !.cp = Len(cps) + 1, !.since = since]
                <5>2. run'[t] = new
                    BY <5>1 DEF MiningTypeOK
                <5>3. new.pc = "list"
                    BY DEF Idle
                <5> HIDE DEF new
                <5> QED
                    BY <5>2, <5>3
            <4>2. ASSUME NEW c, StartResume(t, c) PROVE run'[t].pc # "create"
                <5>1. run'[t] = [Idle EXCEPT !.pc = "resume", !.cp = c, !.resumed = TRUE]
                    BY <3>1, <4>2 DEF StartResume
                <5> QED
                    BY <5>1 DEF Idle
            <4> QED
                BY <3>2, <4>1, <4>2
        <3>3. CASE ListSpam(t)
            <4> DEFINE list == Recent(run[t].since)
            <4>1. \/ run'[t] = [run[t] EXCEPT !.pc = "mine", !.rest = list]
                  \/ run'[t] = Idle
                BY <3>1, <3>3 DEF ListSpam
            <4> HIDE DEF list
            <4> QED
                BY <3>1, <4>1 DEF Runs
        <3>4. CASE MineBatch(t)
            <4> DEFINE batch == BatchOf(run[t].rest)
                       new == [run[t] EXCEPT !.rest = AfterBatch(@),
                                             !.signals = Merged(run[t].signals, batch),
                                             !.chunks = run[t].chunks + ChunksIn(batch)]
            <4>1. run'[t] = new /\ run[t].pc = "mine"
                BY <3>4 DEF MineBatch, At, MiningTypeOK
            <4>2. new.pc = run[t].pc
                BY <3>1 DEF Runs
            <4> HIDE DEF new
            <4> QED
                BY <4>1, <4>2
        <3>5. CASE MiningDone(t)
            BY <3>1, <3>5 DEF MiningDone, Runs
        <3>6. CASE SetRunning(t)
            BY <3>1, <3>6 DEF SetRunning, Runs
        <3>7. CASE GatherRemaining(t)
            <4> DEFINE merged == Merged(run[t].signals, Recent(run[t].since))
            <4>1. \/ run'[t] = [run[t] EXCEPT !.pc = "check", !.signals = merged,
                                             !.todo = Frequent(merged)]
                  \/ run'[t] = Idle
                BY <3>1, <3>7 DEF GatherRemaining
            <4> HIDE DEF merged
            <4>2. run[t] \in Runs
                BY <3>1
            <4> QED
                BY <3>1, <4>1, <4>2 DEF Runs
        <3>8. CASE Complete(t) \/ Stop(t)
            BY <3>1, <3>8 DEF Complete, Stop
        <3> QED
            BY <1>2, <3>2, <3>3, <3>4, <3>5, <3>6, <3>7, <3>8 DEF Mine, Resume
    <2> QED
        BY <2>1, <2>2, NoMorePending
<1>3. ASSUME NEW t \in MiningTasks, NEW f \in Features, CheckPattern(t, f) PROVE CopiesInv'
    BY <1>3, CheckCopies
<1>4. ASSUME NEW t \in MiningTasks, NEW f \in Features, CreatePattern(t, f) PROVE CopiesInv'
    BY <1>4, CreateCopies
<1>5. ASSUME NEW t \in MiningTasks, NEW f \in Features, CreateRule(t, f) PROVE CopiesInv'
    <2>1. patterns' = patterns /\ \A u \in MiningTasks \ {t} : run'[u] = run[u]
        BY <1>5 DEF CreateRule, MiningTypeOK
    <2>2. run'[t].pc # "create"
        BY <1>5, RunTyped DEF CreateRule, MiningTypeOK, Runs
    <2> QED
        BY <2>1, <2>2, NoMorePending
<1>6. CASE UNCHANGED miningVars
    BY <1>6, NoMorePending DEF miningVars
<1> QED
    BY <1>1, <1>2, <1>3, <1>4, <1>5, <1>6 DEF MiningNext, Generate

\* However mining and resumed runs overlap, stop and start again: as long as the
\* duplicate check sees the whole table, a feature gets at most one pattern for each
\* task that may run at a time, not one for each run.
THEOREM DuplicatesStayBounded ==
    ASSUME MiningAssumption, IsFiniteSet(MiningTasks)
    PROVE  MiningSpec /\ []AllListed => []DuplicatesBounded
<1>1. MiningInit => CopiesInv
    <2> SUFFICES ASSUME MiningInit, NEW f \in Features
                 PROVE  Cardinality(Copies(f)) + Cardinality(Pending(f)) <= Cardinality(MiningTasks)
        BY DEF CopiesInv
    <2>1. Copies(f) = {} /\ Pending(f) = {}
        BY DEF MiningInit, Copies, Pending, Idle
    <2>2. Cardinality(MiningTasks) \in Nat
        BY FS_CardinalityType
    <2> QED
        BY <2>1, <2>2, FS_EmptySet
<1>2. MiningTypeOK /\ MiningTypeOK' /\ CopiesInv /\ AllListed /\ [MiningNext]_miningVars => CopiesInv'
    BY CopiesStep
<1>3. MiningTypeOK /\ CopiesInv => DuplicatesBounded
    <2> SUFFICES ASSUME MiningTypeOK, CopiesInv, NEW f \in Features
                 PROVE  Cardinality(Copies(f)) <= Cardinality(MiningTasks)
        BY DEF DuplicatesBounded, Copies
    <2>1. /\ Cardinality(Copies(f)) \in Nat /\ Cardinality(Pending(f)) \in Nat
          /\ Cardinality(MiningTasks) \in Nat
          /\ Cardinality(Copies(f)) + Cardinality(Pending(f)) <= Cardinality(MiningTasks)
        BY CountsTyped DEF CopiesInv
    <2> QED
        BY <2>1
<1>4. MiningSpec => []MiningTypeOK
    BY MiningTypeCorrect
<1> QED
    BY <1>1, <1>2, <1>3, <1>4, PTL DEF MiningSpec
=============================================================================
