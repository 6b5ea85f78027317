-------------------------- MODULE MCDistributedLock --------------------------
\* Instances of DistributedLock for TLC.
EXTENDS DistributedLock, TLC

CONSTANTS t1, t2, t3, t4, i1, i2, i3, c1, c2, c3, c4

\* Two tasks share the first process, one runs on the second, one on the third.
TwoAndOne == t1 :> i1 @@ t2 :> i1 @@ t3 :> i2 @@ t4 :> i3
TwoAndOnePools == c1 :> i1 @@ c2 :> i1 @@ c3 :> i2 @@ c4 :> i3

\* Two tasks of one process.
OneProcess == t1 :> i1 @@ t2 :> i1
OneProcessPools == c1 :> i1 @@ c2 :> i1

\* One task per process.
OneEach == t1 :> i1 @@ t2 :> i2
OneEachPools == c1 :> i1 @@ c2 :> i2

\* The same and a third process, which does not lock.
OneEachOfThree == t1 :> i1 @@ t2 :> i2 @@ t3 :> i3
OneEachOfThreePools == c1 :> i1 @@ c2 :> i2 @@ c3 :> i3

\* The same tasks on PostgreSQL alone, whose calls may fail.
Postgres == INSTANCE DistributedLock WITH
    Backends <- {"pg"}, Faults <- {"pg_error", "crash", "close"}
=============================================================================
