--------------------------- MODULE DistributedLock ---------------------------
(***************************************************************************)
(* The lock of app/distributed_lock.py for one lock key, seen from all the *)
(* PATAS instances that share a Redis server and a PostgreSQL server.      *)
(*                                                                         *)
(* A task is one coroutine that runs                                       *)
(*     lock.db = self.db                                                   *)
(*     async with lock.acquire(key, timeout) as acquired: <body>           *)
(*     <work>                                                              *)
(* Tasks of one instance share its DistributedLock object, hence its `db`  *)
(* attribute, which every caller overwrites.  A task owns one              *)
(* AsyncSession; a session checks a connection out of the instance's pool  *)
(* at its first statement and gives it back when it commits or closes.     *)
(* Advisory locks belong to the connection.  A step is what happens        *)
(* between two awaits; a call to a server and its reply are one step.      *)
(***************************************************************************)
EXTENDS Integers, FiniteSets

CONSTANTS
    Tasks,              \* coroutines that take the lock
    Instances,          \* PATAS processes
    Conns,              \* database connections of all the pools
    InstanceOf,         \* [Tasks -> Instances]
    PoolOf,             \* [Conns -> Instances]
    Tokens,             \* lock tokens (uuid4), drawn fresh
    NoToken, NoTask, NoConn,
    LockTimeout,        \* TTL of the lease, in ticks
    HeartbeatInterval,  \* ticks between two refreshes
    MaxHolds,           \* bound: how often a connection may take its lock again
    Locking,            \* instances with enable_locks
    Backends,           \* subset of {"redis", "pg"}: what is configured
    Faults              \* subset of FaultKinds: what the environment may do

FaultKinds == {"redis_error", "refresh_error", "late_heartbeat", "pg_error",
               "crash", "close", "commit_in_body"}

ASSUME LockAssumption ==
    /\ InstanceOf \in [Tasks -> Instances]
    /\ PoolOf \in [Conns -> Instances]
    /\ NoToken \notin Tokens /\ NoTask \notin Tasks /\ NoConn \notin Conns
    /\ LockTimeout \in Nat \ {0}
    /\ HeartbeatInterval \in Nat \ {0}
    /\ MaxHolds \in Nat \ {0}
    /\ Locking \subseteq Instances
    /\ Backends \subseteq {"redis", "pg"}
    /\ Faults \subseteq FaultKinds

VARIABLES
    lease,    \* the Redis key: token and remaining TTL
    pgHolds,  \* connection -> times it holds the advisory lock
    conn,     \* session of a task -> connection it has checked out
    db,       \* instance -> whose session is in lock.db
    client,   \* instance -> redis_client is not None
    pc,       \* where a task is
    token,    \* lock_token of a task's acquire()
    pgLock,   \* lock_id of a task's acquire() is set
    sess,     \* session that a task's PostgreSQL call runs on
    beat      \* ticks until the next refresh, NoBeat without heartbeat task

vars == <<lease, pgHolds, conn, db, client, pc, token, pgLock, sess, beat>>
redisVars == <<lease, token, beat>>
pgVars == <<pgHolds, conn, pgLock>>

NoBeat == -1
NoLease == [token |-> NoToken, ttl |-> 0]

TypeOK ==
    /\ lease \in [token: Tokens \cup {NoToken}, ttl: 0..LockTimeout]
    /\ pgHolds \in [Conns -> 0..MaxHolds]
    /\ conn \in [Tasks -> Conns \cup {NoConn}]
    /\ db \in [Instances -> Tasks \cup {NoTask}]
    /\ client \in [Instances -> BOOLEAN]
    /\ pc \in [Tasks -> {"idle", "redis", "pg", "body", "work"}]
    /\ token \in [Tasks -> Tokens \cup {NoToken}]
    /\ pgLock \in [Tasks -> BOOLEAN]
    /\ sess \in [Tasks -> Tasks \cup {NoTask}]
    /\ beat \in [Tasks -> Int]
    /\ \A t \in Tasks : beat[t] \in {NoBeat} \cup (0..HeartbeatInterval)

Init ==
    /\ lease = NoLease
    /\ pgHolds = [c \in Conns |-> 0]
    /\ conn = [t \in Tasks |-> NoConn]
    /\ db = [i \in Instances |-> NoTask]
    /\ client = [i \in Instances |-> "redis" \in Backends]
    /\ pc = [t \in Tasks |-> "idle"]
    /\ token = [t \in Tasks |-> NoToken]
    /\ pgLock = [t \in Tasks |-> FALSE]
    /\ sess = [t \in Tasks |-> NoTask]
    /\ beat = [t \in Tasks |-> NoBeat]

-----------------------------------------------------------------------------
Client(t) == client[InstanceOf[t]]
LockDb(t) == db[InstanceOf[t]]

\* uuid4() never repeats a token that is stored anywhere.
FreshTokens == Tokens \ ({lease.token} \cup {token[t] : t \in Tasks})

\* A connection that a release took to the session in lock.db after that session's
\* task was over: it is lost, and the locks on it, when the session is.
Abandoned(i) ==
    {c \in Conns : db[i] # NoTask /\ pc[db[i]] = "idle" /\ conn[db[i]] = c}

\* The caller's assignment and acquire() up to its first await.
Begin(t) ==
    LET i == InstanceOf[t] IN
    /\ pc[t] = "idle"
    /\ db' = [db EXCEPT ![i] = t]
    /\ conn' = [s \in Tasks |-> IF conn[s] \in Abandoned(i) THEN NoConn ELSE conn[s]]
    /\ pgHolds' = [c \in Conns |-> IF c \in Abandoned(i) THEN 0 ELSE pgHolds[c]]
    /\ \/ /\ i \notin Locking
          /\ pc' = [pc EXCEPT ![t] = "body"]
          /\ UNCHANGED sess
       \/ /\ i \in Locking /\ Client(t)
          /\ pc' = [pc EXCEPT ![t] = "redis"]
          /\ UNCHANGED sess
       \/ /\ i \in Locking /\ ~Client(t)
          /\ pc' = [pc EXCEPT ![t] = "pg"]
          /\ sess' = [sess EXCEPT ![t] = t]
    /\ UNCHANGED <<redisVars, pgLock, client>>

\* NX: the key must not exist.
BugNoNX == TRUE
KeyFree == lease = NoLease

\* The heartbeat task sleeps before its first refresh.
BugNoHeartbeat == NoBeat
FirstBeat == HeartbeatInterval

\* _acquire_redis_lock: SET key token NX EX timeout stored the token.
RedisAcquire(t) ==
    /\ pc[t] = "redis" /\ Client(t)
    /\ KeyFree
    /\ \E k \in FreshTokens :
          /\ lease' = [token |-> k, ttl |-> LockTimeout]
          /\ token' = [token EXCEPT ![t] = k]
    /\ beat' = [beat EXCEPT ![t] = FirstBeat]
    /\ pc' = [pc EXCEPT ![t] = "body"]
    /\ UNCHANGED <<pgVars, db, client, sess>>

\* _acquire_redis_lock returned None -- the key is taken, or the call failed,
\* perhaps after the server stored the token -- and acquire() goes on to
\* PostgreSQL on whatever session lock.db holds now.
RedisNone(t) ==
    /\ pc[t] = "redis"
    /\ \/ /\ lease # NoLease \/ ~Client(t) \/ "redis_error" \in Faults
          /\ UNCHANGED lease
       \/ /\ Client(t) /\ "redis_error" \in Faults /\ lease = NoLease
          /\ \E k \in FreshTokens : lease' = [token |-> k, ttl |-> LockTimeout]
    /\ pc' = [pc EXCEPT ![t] = "pg"]
    /\ sess' = [sess EXCEPT ![t] = LockDb(t)]
    /\ UNCHANGED <<pgVars, db, client, token, beat>>

\* The connections a statement of session s may run on.
ConnsFor(s) ==
    IF conn[s] # NoConn THEN {conn[s]}
    ELSE {c \in Conns : /\ PoolOf[c] = InstanceOf[s]
                        /\ \A t \in Tasks : conn[t] # c}

\* The answer of pg_try_advisory_lock on connection c; it is reentrant.
BugAnswerIgnored(c) == TRUE
Granted(c) == \A d \in Conns \ {c} : pgHolds[d] = 0

\* _acquire_pg_lock gets the lock, on the connection of its session.
PgAcquire(t) ==
    /\ pc[t] = "pg" /\ "pg" \in Backends /\ sess[t] # NoTask
    /\ \E c \in ConnsFor(sess[t]) :
          /\ Granted(c)
          /\ pgHolds[c] < MaxHolds
          /\ pgHolds' = [pgHolds EXCEPT ![c] = @ + 1]
          /\ conn' = [conn EXCEPT ![sess[t]] = c]
    /\ pgLock' = [pgLock EXCEPT ![t] = TRUE]
    /\ pc' = [pc EXCEPT ![t] = "body"]
    /\ sess' = [sess EXCEPT ![t] = NoTask]
    /\ UNCHANGED <<redisVars, db, client>>

\* pg_try_advisory_lock says no, fails, or there is no PostgreSQL: acquire()
\* yields False, the caller returns, and its session closes.
Denied(t) ==
    /\ pc[t] = "pg"
    /\ \/ /\ "pg" \notin Backends \/ sess[t] = NoTask \/ "pg_error" \in Faults
          /\ conn' = [conn EXCEPT ![t] = NoConn]
       \/ /\ "pg" \in Backends
          /\ \E c \in ConnsFor(sess[t]) :
                /\ ~Granted(c)
                /\ conn' = [conn EXCEPT ![sess[t]] = c, ![t] = NoConn]
    /\ pc' = [pc EXCEPT ![t] = "idle"]
    /\ sess' = [sess EXCEPT ![t] = NoTask]
    /\ UNCHANGED <<redisVars, pgHolds, pgLock, db, client>>

\* The body commits: the session's connection goes back to the pool.
CommitInBody(t) ==
    /\ pc[t] = "body" /\ "commit_in_body" \in Faults
    /\ conn' = [conn EXCEPT ![t] = NoConn]
    /\ UNCHANGED <<redisVars, pgHolds, pgLock, db, client, pc, sess>>

\* The TTL a refresh sets.
BugShortTTL == HeartbeatInterval
BugPaddedTTL == LockTimeout + HeartbeatInterval
RefreshedTTL == LockTimeout

\* _heartbeat_redis_lock: one turn of its loop; it ends for good when a
\* refresh is refused or fails.
Heartbeat(t) ==
    /\ beat[t] = 0
    /\ \/ /\ Client(t) /\ lease.token = token[t]
          /\ lease' = [lease EXCEPT !.ttl = RefreshedTTL]
          /\ beat' = [beat EXCEPT ![t] = HeartbeatInterval]
       \/ /\ ~Client(t) \/ lease.token # token[t] \/ "refresh_error" \in Faults
          /\ beat' = [beat EXCEPT ![t] = NoBeat]
          /\ UNCHANGED lease
    /\ UNCHANGED <<pgVars, db, client, pc, token, sess>>

\* The script deletes the key only if it still holds the caller's token.
BugUncheckedDelete(t) == Client(t) /\ lease # NoLease
Deletes(t) == Client(t) /\ lease.token = token[t]

\* _release_redis_lock: check-and-delete in one script; a failure leaves the
\* token to its TTL.
ReleaseRedis(t) ==
    /\ pc[t] = "body" /\ token[t] # NoToken
    /\ \/ Deletes(t) /\ lease' = NoLease
       \/ /\ ~Deletes(t) \/ "redis_error" \in Faults
          /\ UNCHANGED lease
    /\ token' = [token EXCEPT ![t] = NoToken]
    /\ beat' = [beat EXCEPT ![t] = NoBeat]
    /\ pc' = [pc EXCEPT ![t] = "work"]
    /\ UNCHANGED <<pgVars, db, client, sess>>

\* pg_advisory_unlock on a connection that holds the lock n times.
BugNoUnlock(n) == n
Unlocked(n) == IF n > 0 THEN n - 1 ELSE 0

\* _release_pg_lock: the unlock runs on the session lock.db holds now; on a
\* connection without the lock it does nothing, and reports success.
ReleasePg(t) ==
    LET s == LockDb(t) IN
    /\ pc[t] = "body" /\ pgLock[t]
    /\ \/ \E c \in ConnsFor(s) :
             /\ pgHolds' = [pgHolds EXCEPT ![c] = Unlocked(@)]
             /\ conn' = [conn EXCEPT ![s] = c]
       \/ "pg_error" \in Faults /\ UNCHANGED <<pgHolds, conn>>
    /\ pgLock' = [pgLock EXCEPT ![t] = FALSE]
    /\ pc' = [pc EXCEPT ![t] = "work"]
    /\ UNCHANGED <<redisVars, db, client, sess>>

\* enable_locks is off: nothing was taken, nothing is released.
ReleaseNothing(t) ==
    /\ pc[t] = "body" /\ token[t] = NoToken /\ ~pgLock[t]
    /\ pc' = [pc EXCEPT ![t] = "work"]
    /\ UNCHANGED <<redisVars, pgVars, db, client, sess>>

\* The caller's work, which follows the `async with` block, is over.
Finish(t) ==
    /\ pc[t] = "work"
    /\ pc' = [pc EXCEPT ![t] = "idle"]
    /\ conn' = [conn EXCEPT ![t] = NoConn]
    /\ UNCHANGED <<redisVars, pgHolds, pgLock, db, client, sess>>

\* close(): the Redis client is gone, use_redis stays set.
Close(i) ==
    /\ "close" \in Faults /\ client[i]
    /\ client' = [client EXCEPT ![i] = FALSE]
    /\ UNCHANGED <<redisVars, pgVars, db, pc, sess>>

\* The process dies and restarts: its tasks, heartbeats and connections go;
\* what Redis stores stays.
Crash(i) ==
    LET Here(t) == InstanceOf[t] = i IN
    /\ "crash" \in Faults
    /\ \E t \in Tasks : Here(t) /\ pc[t] # "idle"
    /\ pc' = [t \in Tasks |-> IF Here(t) THEN "idle" ELSE pc[t]]
    /\ token' = [t \in Tasks |-> IF Here(t) THEN NoToken ELSE token[t]]
    /\ pgLock' = [t \in Tasks |-> ~Here(t) /\ pgLock[t]]
    /\ sess' = [t \in Tasks |-> IF Here(t) THEN NoTask ELSE sess[t]]
    /\ beat' = [t \in Tasks |-> IF Here(t) THEN NoBeat ELSE beat[t]]
    /\ conn' = [t \in Tasks |-> IF Here(t) THEN NoConn ELSE conn[t]]
    /\ pgHolds' = [c \in Conns |-> IF PoolOf[c] = i THEN 0 ELSE pgHolds[c]]
    /\ db' = [db EXCEPT ![i] = NoTask]
    /\ client' = [client EXCEPT ![i] = "redis" \in Backends]
    /\ UNCHANGED lease

\* What a tick leaves of the key (set with EX) and of a heartbeat's sleep.
BugNoExpiry == lease
LeaseAfterTick ==
    IF lease.ttl > 1 THEN [lease EXCEPT !.ttl = @ - 1] ELSE NoLease

BeatAfterTick(t) == IF beat[t] > 0 THEN beat[t] - 1 ELSE beat[t]

TimeMayPass ==
    /\ lease # NoLease \/ \E t \in Tasks : beat[t] > 0
    /\ "late_heartbeat" \in Faults \/ \A t \in Tasks : beat[t] # 0

\* Time passes: the TTL runs, and so do the sleeps of the heartbeats.  Unless
\* heartbeats may be late, a refresh that is due comes before the next tick.
Tick ==
    /\ TimeMayPass
    /\ lease' = LeaseAfterTick
    /\ beat' = [t \in Tasks |-> BeatAfterTick(t)]
    /\ UNCHANGED <<pgVars, db, client, pc, token, sess>>

TaskStep(t) ==
    \/ Begin(t) \/ RedisAcquire(t) \/ RedisNone(t) \/ PgAcquire(t) \/ Denied(t)
    \/ CommitInBody(t) \/ Heartbeat(t)
    \/ ReleaseRedis(t) \/ ReleasePg(t) \/ ReleaseNothing(t) \/ Finish(t)

Next ==
    \/ \E t \in Tasks : TaskStep(t)
    \/ \E i \in Instances : Close(i) \/ Crash(i)
    \/ Tick

Spec == Init /\ [][Next]_vars

\* Time never stops, and the event loop runs a refresh that is due.
FairSpec == Spec /\ WF_vars(Tick) /\ \A t \in Tasks : WF_vars(Heartbeat(t))

-----------------------------------------------------------------------------
\* t is inside its `async with` block, told that it has the lock.
HoldsLock(t) == pc[t] = "body" /\ (token[t] # NoToken \/ pgLock[t])

\* Two tasks are never inside the block at the same time: the coordination
\* that the module's docstring promises.
Exclusion ==
    \A t, u \in Tasks : HoldsLock(t) /\ HoldsLock(u) => t = u

\* While a holder is in the block, Redis stores its token: the heartbeat
\* outruns the TTL.
HolderKeepsLease ==
    \A t \in Tasks : token[t] # NoToken => lease.token = token[t]

Lock == INSTANCE AbstractLock
    WITH Claims <- Tokens, NoClaim <- NoToken,
         owner <- lease.token, inside <- token

\* Redis with heartbeats that keep up implements the abstract lock: the owner is
\* the token Redis stores, a task is inside under its lock_token.
ImplementsLock == Lock!AbsSpec

\* A holder that keeps its token loses the lease to its TTL only: no release,
\* refresh or acquisition of another task, however late, removes it.
LeaseEndsByTTL ==
    [][\A t \in Tasks :
         /\ token[t] # NoToken /\ lease.token = token[t]
         /\ token'[t] = token[t] /\ lease'.token # token[t]
         => lease.ttl = 1 /\ lease' = NoLease]_vars

Orphaned == lease # NoLease /\ \A t \in Tasks : token[t] # lease.token

\* Whatever happens to tasks and processes, a lease that no task knows any more
\* (its holder died, or the reply to SET was lost) ends: Redis is never left with
\* orphans for good.
OrphanLeaseEnds == []<>~Orphaned

\* _release_pg_lock: a task that was in the block and left it has released the
\* advisory lock: a connection holds it only for a task that is in its block.
NoLeakedLock ==
    \A c \in Conns :
        pgHolds[c] > 0 => \E t \in Tasks : pgLock[t] /\ conn[t] = c

\* Two callers that were both told they have the lock never do the work it
\* guards at the same time.
WorkExclusion ==
    \A t, u \in Tasks : pc[t] = "work" /\ pc[u] = "work" => t = u
=============================================================================
