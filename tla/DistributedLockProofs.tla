------------------------ MODULE DistributedLockProofs ------------------------
(***************************************************************************)
(* What DistributedLock guarantees for any number of tasks, processes and  *)
(* connections and any timing constants.                                   *)
(***************************************************************************)
EXTENDS DistributedLock, TLAPS

USE DEF NoBeat, KeyFree, RefreshedTTL, Deletes, LeaseAfterTick, BeatAfterTick,
        TimeMayPass, Unlocked, FirstBeat

-----------------------------------------------------------------------------
(* Type correctness *)

LEMMA LeaseType ==
    ASSUME LockAssumption
    PROVE  /\ NoLease \in [token: Tokens \cup {NoToken}, ttl: 0..LockTimeout]
           /\ \A k \in Tokens : [token |-> k, ttl |-> LockTimeout]
                 \in [token: Tokens \cup {NoToken}, ttl: 0..LockTimeout]
BY DEF LockAssumption, NoLease

LEMMA InitType == Init /\ LockAssumption => TypeOK
BY LeaseType DEF Init, TypeOK, LockAssumption

LEMMA StepType ==
    ASSUME LockAssumption, TypeOK, [Next]_vars
    PROVE  TypeOK'
<1> USE DEF LockAssumption
<1>1. ASSUME NEW t \in Tasks, Begin(t) PROVE TypeOK'
    BY <1>1 DEF TypeOK, Begin, redisVars, pgVars, Client
<1>2. ASSUME NEW t \in Tasks, RedisAcquire(t) PROVE TypeOK'
    BY <1>2, LeaseType DEF TypeOK, RedisAcquire, redisVars, pgVars, FreshTokens
<1>3. ASSUME NEW t \in Tasks, RedisNone(t) PROVE TypeOK'
    BY <1>3, LeaseType DEF TypeOK, RedisNone, redisVars, pgVars, FreshTokens, LockDb
<1>4. ASSUME NEW t \in Tasks, PgAcquire(t) PROVE TypeOK'
    BY <1>4 DEF TypeOK, PgAcquire, redisVars, pgVars, ConnsFor
<1>5. ASSUME NEW t \in Tasks, Denied(t) PROVE TypeOK'
    BY <1>5 DEF TypeOK, Denied, redisVars, pgVars, ConnsFor
<1>6. ASSUME NEW t \in Tasks, CommitInBody(t) PROVE TypeOK'
    BY <1>6 DEF TypeOK, CommitInBody, redisVars, pgVars
<1>7. ASSUME NEW t \in Tasks, Heartbeat(t) PROVE TypeOK'
    BY <1>7 DEF TypeOK, Heartbeat, redisVars, pgVars
<1>8. ASSUME NEW t \in Tasks, ReleaseRedis(t) PROVE TypeOK'
    BY <1>8, LeaseType DEF TypeOK, ReleaseRedis, redisVars, pgVars
<1>9. ASSUME NEW t \in Tasks, ReleasePg(t) PROVE TypeOK'
    BY <1>9 DEF TypeOK, ReleasePg, redisVars, pgVars, ConnsFor
<1>10. ASSUME NEW t \in Tasks, ReleaseNothing(t) \/ Finish(t) PROVE TypeOK'
    BY <1>10 DEF TypeOK, ReleaseNothing, Finish, redisVars, pgVars
<1>11. ASSUME NEW i \in Instances, Close(i) PROVE TypeOK'
    BY <1>11 DEF TypeOK, Close, redisVars, pgVars
<1>12. ASSUME NEW i \in Instances, Crash(i) PROVE TypeOK'
    BY <1>12 DEF TypeOK, Crash
<1>13. CASE Tick
    BY <1>13, LeaseType DEF TypeOK, Tick, redisVars, pgVars
<1>14. CASE UNCHANGED vars
    BY <1>14 DEF TypeOK, vars
<1> QED
    BY <1>1, <1>2, <1>3, <1>4, <1>5, <1>6, <1>7, <1>8, <1>9, <1>10, <1>11,
       <1>12, <1>13, <1>14 DEF Next, TaskStep

\* Every variable keeps its type, whatever is configured and whatever fails.
THEOREM TypeCorrect == LockAssumption /\ Spec => []TypeOK
<1> SUFFICES ASSUME LockAssumption PROVE Spec => []TypeOK
    OBVIOUS
<1>1. Init => TypeOK
    BY InitType
<1>2. TypeOK /\ [Next]_vars => TypeOK'
    BY StepType
<1> QED
    BY <1>1, <1>2, PTL DEF Spec

-----------------------------------------------------------------------------
(* A lease is lost to its TTL only, in every configuration *)

\* No two tasks share a token, a heartbeat runs only for a task that has one,
\* and the key exists exactly while its TTL runs.
TokenInv ==
    /\ \A t, u \in Tasks : token[t] # NoToken /\ token[t] = token[u] => t = u
    /\ \A t \in Tasks : beat[t] # NoBeat => token[t] # NoToken
    /\ lease.token = NoToken <=> lease.ttl = 0

\* The steps that touch neither Redis nor what a task knows of it.
LocalStep ==
    \/ \E t \in Tasks : \/ Begin(t) \/ PgAcquire(t) \/ Denied(t) \/ CommitInBody(t)
                        \/ ReleasePg(t) \/ ReleaseNothing(t) \/ Finish(t)
    \/ \E i \in Instances : Close(i)
    \/ UNCHANGED vars

LEMMA LocalStepLeaves == LocalStep => UNCHANGED <<lease, token, beat>>
BY DEF LocalStep, Begin, PgAcquire, Denied, CommitInBody, ReleasePg,
       ReleaseNothing, Finish, Close, vars, redisVars

LEMMA StepToken ==
    ASSUME LockAssumption, TypeOK, TokenInv, [Next]_vars
    PROVE  TokenInv'
<1> USE DEF LockAssumption, TypeOK, TokenInv
<1>1. CASE LocalStep
    BY <1>1, LocalStepLeaves
<1>2. ASSUME NEW t \in Tasks, RedisAcquire(t) PROVE TokenInv'
    BY <1>2 DEF RedisAcquire, FreshTokens
<1>3. ASSUME NEW t \in Tasks, RedisNone(t) PROVE TokenInv'
    BY <1>3 DEF RedisNone, FreshTokens
<1>4. ASSUME NEW t \in Tasks, Heartbeat(t) PROVE TokenInv'
    BY <1>4 DEF Heartbeat
<1>5. ASSUME NEW t \in Tasks, ReleaseRedis(t) PROVE TokenInv'
    BY <1>5 DEF ReleaseRedis, NoLease
<1>6. ASSUME NEW i \in Instances, Crash(i) PROVE TokenInv'
    BY <1>6 DEF Crash
<1>7. CASE Tick
    BY <1>7 DEF Tick, NoLease
<1> QED
    BY <1>1, <1>2, <1>3, <1>4, <1>5, <1>6, <1>7 DEF Next, TaskStep, LocalStep

\* The step of LeaseEndsByTTL: the disjuncts that change the stored token are an
\* acquisition (the key was free), a release by the owner, and a tick.
LEMMA StepLease ==
    ASSUME LockAssumption, TypeOK, TokenInv, [Next]_vars,
           NEW t \in Tasks,
           token[t] # NoToken, lease.token = token[t],
           token'[t] = token[t], lease'.token # token[t]
    PROVE  lease.ttl = 1 /\ lease' = NoLease
<1> USE DEF LockAssumption, TypeOK, TokenInv
<1>1. CASE LocalStep
    BY <1>1, LocalStepLeaves
<1>2. ASSUME NEW u \in Tasks, RedisAcquire(u) \/ RedisNone(u) PROVE FALSE
    BY <1>2 DEF RedisAcquire, RedisNone, NoLease
<1>3. ASSUME NEW u \in Tasks, Heartbeat(u) PROVE FALSE
    BY <1>3 DEF Heartbeat
<1>4. ASSUME NEW u \in Tasks, ReleaseRedis(u) PROVE FALSE
    BY <1>4 DEF ReleaseRedis
<1>5. ASSUME NEW i \in Instances, Crash(i) PROVE FALSE
    BY <1>5 DEF Crash
<1>6. CASE Tick
    <2>1. ~(lease.ttl > 1)
        <3>1. SUFFICES ASSUME lease.ttl > 1 PROVE lease'.token = lease.token
            OBVIOUS
        <3> QED
            BY <3>1, <1>6 DEF Tick
    <2>2. lease' = NoLease
        BY <2>1, <1>6 DEF Tick
    <2>3. lease.ttl \in 0..LockTimeout /\ lease.ttl # 0
        OBVIOUS
    <2> QED
        BY <2>1, <2>2, <2>3
<1> QED
    BY <1>1, <1>2, <1>3, <1>4, <1>5, <1>6 DEF Next, TaskStep, LocalStep

\* A holder loses the lease to its TTL only: no other task's release, refresh or
\* acquisition removes it, with any faults and both backends.
THEOREM LeaseLossIsExpiry == LockAssumption /\ Spec => LeaseEndsByTTL
<1> SUFFICES ASSUME LockAssumption PROVE Spec => LeaseEndsByTTL
    OBVIOUS
<1>1. Init => TypeOK /\ TokenInv
    BY InitType DEF Init, TokenInv, NoLease
<1>2. TypeOK /\ TokenInv /\ [Next]_vars => (TypeOK /\ TokenInv)'
    BY StepType, StepToken
<1>3. TypeOK /\ TokenInv /\ [Next]_vars
        => [\A t \in Tasks :
              /\ token[t] # NoToken /\ lease.token = token[t]
              /\ token'[t] = token[t] /\ lease'.token # token[t]
              => lease.ttl = 1 /\ lease' = NoLease]_vars
    BY StepLease
<1> QED
    BY <1>1, <1>2, <1>3, PTL DEF Spec, LeaseEndsByTTL

-----------------------------------------------------------------------------
(* Mutual exclusion, for a deployment on Redis whose heartbeats keep up *)

\* Redis is the only backend, a refresh is neither late nor lost, and the
\* heartbeat interval is shorter than the TTL.
RedisKeepsUp ==
    /\ Backends = {"redis"}
    /\ Faults \cap {"refresh_error", "late_heartbeat", "close"} = {}
    /\ HeartbeatInterval < LockTimeout

\* A task with a token is inside its block, Redis stores that token, and its
\* next refresh comes before the TTL runs out.
LeaseInv ==
    /\ \A i \in Instances : client[i]
    /\ \A t \in Tasks : ~pgLock[t]
    /\ \A t \in Tasks : token[t] # NoToken =>
          /\ pc[t] = "body"
          /\ lease.token = token[t]
          /\ beat[t] # NoBeat
          /\ beat[t] < lease.ttl

LEMMA StepLeaseInv ==
    ASSUME LockAssumption, RedisKeepsUp, TypeOK, TokenInv, LeaseInv, [Next]_vars
    PROVE  LeaseInv'
<1> USE DEF LockAssumption, RedisKeepsUp, TypeOK, TokenInv, LeaseInv
<1>1. ASSUME NEW t \in Tasks, Begin(t) PROVE LeaseInv'
    BY <1>1 DEF Begin, redisVars, pgVars
<1>2. ASSUME NEW t \in Tasks, RedisAcquire(t) PROVE LeaseInv'
    BY <1>2 DEF RedisAcquire, pgVars, NoLease
<1>3. ASSUME NEW t \in Tasks, RedisNone(t) PROVE LeaseInv'
    BY <1>3 DEF RedisNone, pgVars, NoLease
<1>4. ASSUME NEW t \in Tasks, PgAcquire(t) PROVE FALSE
    BY <1>4 DEF PgAcquire
<1>5. ASSUME NEW t \in Tasks, Denied(t) PROVE LeaseInv'
    BY <1>5 DEF Denied, redisVars
<1>6. ASSUME NEW t \in Tasks, CommitInBody(t) PROVE LeaseInv'
    BY <1>6 DEF CommitInBody, redisVars
<1>7. ASSUME NEW t \in Tasks, Heartbeat(t) PROVE LeaseInv'
    BY <1>7 DEF Heartbeat, pgVars, Client
<1>8. ASSUME NEW t \in Tasks, ReleaseRedis(t) PROVE LeaseInv'
    BY <1>8 DEF ReleaseRedis, pgVars
<1>9. ASSUME NEW t \in Tasks, ReleasePg(t) PROVE FALSE
    BY <1>9 DEF ReleasePg
<1>10. ASSUME NEW t \in Tasks, ReleaseNothing(t) \/ Finish(t) PROVE LeaseInv'
    BY <1>10 DEF ReleaseNothing, Finish, redisVars, pgVars
<1>11. ASSUME NEW i \in Instances, Close(i) PROVE FALSE
    BY <1>11 DEF Close
<1>12. ASSUME NEW i \in Instances, Crash(i) PROVE LeaseInv'
    BY <1>12 DEF Crash
<1>13. CASE Tick
    BY <1>13 DEF Tick, pgVars
<1>14. CASE UNCHANGED vars
    BY <1>14 DEF vars
<1> QED
    BY <1>1, <1>2, <1>3, <1>4, <1>5, <1>6, <1>7, <1>8, <1>9, <1>10, <1>11,
       <1>12, <1>13, <1>14 DEF Next, TaskStep

LEMMA RedisInvariant ==
    ASSUME LockAssumption, RedisKeepsUp
    PROVE  Spec => [](TypeOK /\ TokenInv /\ LeaseInv)
<1>1. Init => TypeOK /\ TokenInv /\ LeaseInv
    <2> SUFFICES ASSUME Init PROVE TokenInv /\ LeaseInv
        BY InitType
    <2>1. TokenInv
        BY DEF Init, TokenInv, NoLease
    <2>2. \A i \in Instances : client[i]
        BY Zenon DEF Init, RedisKeepsUp
    <2>3. \A t \in Tasks : ~pgLock[t] /\ token[t] = NoToken
        BY DEF Init
    <2> QED
        BY <2>1, <2>2, <2>3 DEF LeaseInv
<1>2. TypeOK /\ TokenInv /\ LeaseInv /\ [Next]_vars
        => (TypeOK /\ TokenInv /\ LeaseInv)'
    BY StepType, StepToken, StepLeaseInv
<1> QED
    BY <1>1, <1>2, PTL DEF Spec

\* Two tasks never hold the lock at once when Redis is the only backend and the
\* heartbeats keep up, although calls fail, replies are lost and processes die.
THEOREM RedisExclusion == LockAssumption /\ RedisKeepsUp /\ Spec => []Exclusion
<1> SUFFICES ASSUME LockAssumption, RedisKeepsUp PROVE Spec => []Exclusion
    OBVIOUS
<1>1. TypeOK /\ TokenInv /\ LeaseInv => Exclusion
    BY DEF TokenInv, LeaseInv, Exclusion, HoldsLock
<1> QED
    BY <1>1, RedisInvariant, PTL

\* Under the same conditions Redis stores the token of every holder.
THEOREM RedisKeepsLease == LockAssumption /\ RedisKeepsUp /\ Spec => []HolderKeepsLease
<1> SUFFICES ASSUME LockAssumption, RedisKeepsUp PROVE Spec => []HolderKeepsLease
    OBVIOUS
<1>1. LeaseInv => HolderKeepsLease
    BY DEF LeaseInv, HolderKeepsLease
<1> QED
    BY <1>1, RedisInvariant, PTL

-----------------------------------------------------------------------------
(* Under the same conditions the lock implements AbstractLock *)

LEMMA InitRefines ==
    ASSUME Init
    PROVE  Lock!AbsInit
BY DEF Init, Lock!AbsInit, NoLease

LEMMA StepRefines ==
    ASSUME LockAssumption, RedisKeepsUp, TypeOK, TokenInv, LeaseInv, [Next]_vars
    PROVE  [Lock!AbsNext]_(Lock!absVars)
<1> USE DEF LockAssumption, Lock!absVars
<1>1. CASE LocalStep
    BY <1>1, LocalStepLeaves
<1>2. ASSUME NEW t \in Tasks, RedisAcquire(t) PROVE Lock!AbsNext
    <2>1. PICK k \in Tokens : /\ lease' = [token |-> k, ttl |-> LockTimeout]
                              /\ token' = [token EXCEPT ![t] = k]
        BY <1>2 DEF RedisAcquire, FreshTokens
    <2>2. lease.token = NoToken /\ token[t] = NoToken
        BY <1>2 DEF RedisAcquire, NoLease, LeaseInv
    <2>3. Lock!Enter(t, k)
        BY <2>1, <2>2 DEF Lock!Enter
    <2> QED
        BY <2>3 DEF Lock!AbsNext
<1>3. ASSUME NEW t \in Tasks, RedisNone(t), lease' # lease PROVE Lock!AbsNext
    <2>1. PICK k \in Tokens : lease' = [token |-> k, ttl |-> LockTimeout]
        BY <1>3 DEF RedisNone, FreshTokens
    <2>2. lease.token = NoToken /\ token' = token
        BY <1>3 DEF RedisNone, NoLease
    <2>3. Lock!Claim(k)
        BY <2>1, <2>2 DEF Lock!Claim
    <2> QED
        BY <2>3 DEF Lock!AbsNext
<1>4. ASSUME NEW t \in Tasks, Heartbeat(t) PROVE UNCHANGED Lock!absVars
    BY <1>4 DEF Heartbeat, TypeOK
<1>5. ASSUME NEW t \in Tasks, ReleaseRedis(t) PROVE Lock!AbsNext
    <2>1. Lock!Leave(t)
        BY <1>5 DEF ReleaseRedis, Lock!Leave, NoLease
    <2> QED
        BY <2>1 DEF Lock!AbsNext
<1>6. ASSUME NEW i \in Instances, Crash(i) PROVE Lock!AbsNext
    <2> DEFINE dead == {t \in Tasks : InstanceOf[t] = i}
    <2>1. Lock!Abandon(dead)
        BY <1>6 DEF Crash, Lock!Abandon
    <2>2. dead \in SUBSET Tasks
        OBVIOUS
    <2> QED
        BY <2>1, <2>2 DEF Lock!AbsNext
<1>7. CASE Tick
    <2>1. CASE lease.ttl > 1
        BY <1>7, <2>1 DEF Tick, TypeOK
    <2>2. CASE ~(lease.ttl > 1) /\ lease.token = NoToken
        BY <1>7, <2>2 DEF Tick, NoLease
    <2>3. CASE ~(lease.ttl > 1) /\ lease.token # NoToken
        <3>1. lease' = NoLease /\ token' = token
            BY <1>7, <2>3 DEF Tick
        <3>2. ASSUME NEW t \in Tasks, token[t] = lease.token PROVE FALSE
            <4>1. beat[t] \in Nat /\ beat[t] # 0 /\ beat[t] < lease.ttl
                BY <1>7, <2>3, <3>2 DEF Tick, TypeOK, LeaseInv, RedisKeepsUp
            <4>2. lease.ttl \in Nat
                BY DEF TypeOK
            <4> QED
                BY <4>1, <4>2, <2>3
        <3>3. Lock!Lapse
            BY <3>1, <3>2 DEF Lock!Lapse, NoLease
        <3> QED
            BY <3>3 DEF Lock!AbsNext
    <2> QED
        BY <2>1, <2>2, <2>3
<1>8. ASSUME NEW t \in Tasks, RedisNone(t), lease' = lease
      PROVE  UNCHANGED Lock!absVars
    BY <1>8 DEF RedisNone
<1> QED
    BY <1>1, <1>2, <1>3, <1>4, <1>5, <1>6, <1>7, <1>8
    DEF Next, TaskStep, LocalStep

\* With Redis as the only backend and heartbeats that keep up, every behaviour of
\* the lock is one of AbstractLock: the owner is the stored token, and a task is
\* inside under its lock_token.
THEOREM RedisImplementsLock == LockAssumption /\ RedisKeepsUp /\ Spec => ImplementsLock
<1> SUFFICES ASSUME LockAssumption, RedisKeepsUp PROVE Spec => ImplementsLock
    OBVIOUS
<1>1. Init => Lock!AbsInit
    BY InitRefines
<1>2. TypeOK /\ TokenInv /\ LeaseInv /\ [Next]_vars => [Lock!AbsNext]_(Lock!absVars)
    BY StepRefines
<1> QED
    BY <1>1, <1>2, RedisInvariant, PTL DEF Spec, ImplementsLock, Lock!AbsSpec

-----------------------------------------------------------------------------
(* Mutual exclusion, for a deployment on PostgreSQL alone *)

\* Redis is not configured, and no caller commits inside its block (the blocks of
\* promotion, monitor and mining hold nothing but the early return).
PgAlone == "redis" \notin Backends /\ "commit_in_body" \notin Faults

\* No task is on Redis; a task asks for the lock on its own session, whatever
\* lock.db names by then; sessions do not share connections.
SessionInv ==
    /\ \A i \in Instances : ~client[i]
    /\ \A t \in Tasks : token[t] = NoToken /\ pc[t] # "redis"
    /\ \A t \in Tasks : pc[t] = "pg" => sess[t] = t
    /\ \A t \in Tasks : conn[t] \in Conns => PoolOf[conn[t]] = InstanceOf[t]
    /\ \A t, u \in Tasks : conn[t] \in Conns /\ conn[t] = conn[u] => t = u

\* A task that has the lock is in its block, on a connection that holds it, and no
\* second connection holds it: a release that runs on another task's session leaves
\* it locked too long, never too short, as that other task cannot have the lock.
HoldInv ==
    /\ \A t \in Tasks :
          pgLock[t] => pc[t] = "body" /\ conn[t] \in Conns /\ pgHolds[conn[t]] > 0
    /\ \A c, d \in Conns : pgHolds[c] > 0 /\ pgHolds[d] > 0 => c = d

LEMMA OneHolder ==
    ASSUME SessionInv, HoldInv, NEW t \in Tasks, NEW u \in Tasks, pgLock[t], pgLock[u]
    PROVE  t = u
BY DEF SessionInv, HoldInv

\* What a crash leaves of the other processes.
LEMMA CrashLeaves ==
    ASSUME LockAssumption, PgAlone, TypeOK, SessionInv, NEW i \in Instances, Crash(i)
    PROVE  /\ \A t \in Tasks :
                 /\ token'[t] = NoToken /\ pc'[t] # "redis"
                 /\ pc'[t] = "pg" => pc[t] = "pg" /\ sess'[t] = sess[t]
                 /\ conn'[t] \in Conns => conn'[t] = conn[t]
                 /\ pgLock'[t] => /\ InstanceOf[t] # i /\ pgLock[t]
                                  /\ pc'[t] = pc[t] /\ conn'[t] = conn[t]
           /\ \A c \in Conns : pgHolds'[c] = IF PoolOf[c] = i THEN 0 ELSE pgHolds[c]
           /\ \A j \in Instances : ~client'[j]
<1> USE DEF LockAssumption, PgAlone, TypeOK, SessionInv
<1>1. ASSUME NEW t \in Tasks
      PROVE  /\ pgLock'[t] <=> InstanceOf[t] # i /\ pgLock[t]
             /\ pc'[t] = IF InstanceOf[t] = i THEN "idle" ELSE pc[t]
             /\ token'[t] = IF InstanceOf[t] = i THEN NoToken ELSE token[t]
             /\ conn'[t] = IF InstanceOf[t] = i THEN NoConn ELSE conn[t]
             /\ sess'[t] = IF InstanceOf[t] = i THEN NoTask ELSE sess[t]
    BY Zenon DEF Crash
<1>2. \A c \in Conns : pgHolds'[c] = IF PoolOf[c] = i THEN 0 ELSE pgHolds[c]
    BY DEF Crash
<1>3. \A j \in Instances : ~client'[j]
    <2>1. client' = [client EXCEPT ![i] = "redis" \in Backends]
        BY DEF Crash
    <2>2. ("redis" \in Backends) = FALSE
        OBVIOUS
    <2>3. client' = [client EXCEPT ![i] = FALSE]
        BY <2>1, <2>2, Zenon
    <2> QED
        BY <2>3
<1> QED
    BY <1>1, <1>2, <1>3

\* The connection that PgAcquire and ReleasePg run on.
LEMMA ConnFacts ==
    ASSUME LockAssumption, TypeOK, NEW s \in Tasks, NEW c \in ConnsFor(s)
    PROVE  c \in Conns /\ (conn[s] \in Conns => c = conn[s])
           /\ (conn[s] = c \/ (PoolOf[c] = InstanceOf[s] /\ \A u \in Tasks : conn[u] # c))
<1>1. conn[s] \in Conns \cup {NoConn} /\ NoConn \notin Conns
    BY DEF TypeOK, LockAssumption
<1>2. CASE conn[s] = NoConn
    BY <1>1, <1>2 DEF ConnsFor
<1>3. CASE conn[s] # NoConn
    BY <1>1, <1>3 DEF ConnsFor
<1> QED
    BY <1>2, <1>3

LEMMA StepSession ==
    ASSUME LockAssumption, PgAlone, TypeOK, SessionInv, [Next]_vars
    PROVE  SessionInv'
<1> USE DEF LockAssumption, PgAlone, TypeOK, SessionInv
<1>1. ASSUME NEW t \in Tasks, Begin(t) PROVE SessionInv'
    <2>1. /\ token' = token /\ client' = client
          /\ ~Client(t)
          /\ \A u \in Tasks \ {t} : pc'[u] = pc[u] /\ sess'[u] = sess[u]
          /\ pc'[t] # "redis" /\ (pc'[t] = "pg" => sess'[t] = t)
        BY <1>1 DEF Begin, redisVars, Client
    <2>2. \A u \in Tasks : conn'[u] \in {NoConn, conn[u]}
        BY <1>1 DEF Begin
    <2> QED
        BY <2>1, <2>2
<1>2. ASSUME NEW t \in Tasks, RedisAcquire(t) \/ RedisNone(t) PROVE FALSE
    BY <1>2 DEF RedisAcquire, RedisNone
<1>3. ASSUME NEW t \in Tasks, PgAcquire(t) PROVE SessionInv'
    <2>1. PICK c \in ConnsFor(t) : conn' = [conn EXCEPT ![t] = c]
        BY <1>3 DEF PgAcquire
    <2>2. \A u, v \in Tasks : conn'[u] \in Conns =>
              PoolOf[conn'[u]] = InstanceOf[u] /\ (conn'[u] = conn'[v] => u = v)
        BY <2>1, ConnFacts
    <2> QED
        BY <1>3, <2>2 DEF PgAcquire, redisVars
<1>4. ASSUME NEW t \in Tasks, Denied(t) PROVE SessionInv'
    BY <1>4 DEF Denied, redisVars
<1>5. ASSUME NEW t \in Tasks, CommitInBody(t) \/ ReleaseRedis(t) PROVE FALSE
    BY <1>5 DEF CommitInBody, ReleaseRedis
<1>6. ASSUME NEW t \in Tasks, Heartbeat(t) PROVE SessionInv'
    BY <1>6 DEF Heartbeat, pgVars
<1>7. ASSUME NEW t \in Tasks, ReleasePg(t) PROVE SessionInv'
    <2>1. \A u, v \in Tasks : conn'[u] \in Conns =>
              PoolOf[conn'[u]] = InstanceOf[u] /\ (conn'[u] = conn'[v] => u = v)
        <3>1. CASE conn' = conn
            BY <3>1
        <3>2. CASE conn' # conn
            <4>1. PICK c \in ConnsFor(LockDb(t)) : conn' = [conn EXCEPT ![LockDb(t)] = c]
                BY <1>7, <3>2 DEF ReleasePg
            <4>2. LockDb(t) \in Tasks
                BY <3>2, <4>1 DEF LockDb
            <4> HIDE DEF TypeOK, LockAssumption
            <4>3. conn \in [Tasks -> Conns \cup {NoConn}]
                BY DEF TypeOK
            <4>4. c \in Conns /\ (conn[LockDb(t)] \in Conns => c = conn[LockDb(t)])
                  /\ (conn[LockDb(t)] = c \/ (PoolOf[c] = InstanceOf[LockDb(t)]
                                              /\ \A u \in Tasks : conn[u] # c))
                BY <4>1, <4>2, ConnFacts
            <4> QED
                BY <4>1, <4>2, <4>3, <4>4
        <3> QED
            BY <3>1, <3>2
    <2>2. /\ token' = token /\ client' = client /\ sess' = sess
          /\ \A u \in Tasks : pc'[u] = pc[u] \/ pc'[u] = "work"
        BY <1>7 DEF ReleasePg, redisVars
    <2> QED
        BY <2>1, <2>2
<1>8. ASSUME NEW t \in Tasks, ReleaseNothing(t) \/ Finish(t) PROVE SessionInv'
    BY <1>8 DEF ReleaseNothing, Finish, redisVars, pgVars
<1>9. ASSUME NEW i \in Instances, Close(i) PROVE SessionInv'
    BY <1>9 DEF Close, redisVars, pgVars
<1>10. ASSUME NEW i \in Instances, Crash(i) PROVE SessionInv'
    BY <1>10, CrashLeaves
<1>11. CASE Tick
    BY <1>11 DEF Tick, pgVars
<1>12. CASE UNCHANGED vars
    BY <1>12 DEF vars
<1> QED
    BY <1>1, <1>2, <1>3, <1>4, <1>5, <1>6, <1>7, <1>8, <1>9, <1>10, <1>11, <1>12
    DEF Next, TaskStep

LEMMA StepHold ==
    ASSUME LockAssumption, PgAlone, TypeOK, SessionInv, HoldInv, [Next]_vars
    PROVE  HoldInv'
<1> USE DEF LockAssumption, PgAlone, TypeOK, SessionInv, HoldInv
<1>1. ASSUME NEW t \in Tasks, Begin(t) PROVE HoldInv'
    <2> DEFINE gone == Abandoned(InstanceOf[t])
    <2>1. ASSUME NEW u \in Tasks, pgLock[u] PROVE conn[u] \notin gone
        BY <2>1 DEF Abandoned
    <2>2. /\ \A u \in Tasks : conn'[u] = IF conn[u] \in gone THEN NoConn ELSE conn[u]
          /\ \A c \in Conns : pgHolds'[c] = IF c \in gone THEN 0 ELSE pgHolds[c]
          /\ pgLock' = pgLock /\ pc[t] = "idle"
          /\ \A u \in Tasks \ {t} : pc'[u] = pc[u]
        BY <1>1 DEF Begin
    <2> HIDE DEF gone
    <2> QED
        BY <2>1, <2>2
<1>2. ASSUME NEW t \in Tasks, RedisAcquire(t) \/ RedisNone(t) PROVE FALSE
    BY <1>2 DEF RedisAcquire, RedisNone
<1>3. ASSUME NEW t \in Tasks, PgAcquire(t) PROVE HoldInv'
    <2>1. PICK c \in ConnsFor(t) :
              /\ Granted(c)
              /\ pgHolds' = [pgHolds EXCEPT ![c] = @ + 1]
              /\ conn' = [conn EXCEPT ![t] = c]
        BY <1>3 DEF PgAcquire
    <2>2. c \in Conns /\ \A u \in Tasks : conn[u] = c => u = t
        BY <2>1, ConnFacts
    <2>3. /\ pgHolds'[c] > 0
          /\ \A d \in Conns \ {c} : pgHolds'[d] = pgHolds[d] /\ pgHolds[d] = 0
        BY <2>1, <2>2 DEF Granted
    <2>4. \A u \in Tasks : ~pgLock[u] \/ u = t
        BY <2>2, <2>3
    <2> QED
        BY <1>3, <2>1, <2>2, <2>3, <2>4 DEF PgAcquire
<1>4. ASSUME NEW t \in Tasks, Denied(t) PROVE HoldInv'
    BY <1>4 DEF Denied
<1>5. ASSUME NEW t \in Tasks, CommitInBody(t) \/ ReleaseRedis(t) PROVE FALSE
    BY <1>5 DEF CommitInBody, ReleaseRedis
<1>6. ASSUME NEW t \in Tasks, Heartbeat(t) PROVE HoldInv'
    BY <1>6 DEF Heartbeat, pgVars
<1>7. ASSUME NEW t \in Tasks, ReleasePg(t) PROVE HoldInv'
    <2>1. \A u \in Tasks : ~pgLock'[u]
        BY <1>7, OneHolder DEF ReleasePg
    <2>2. \A c \in Conns : pgHolds'[c] > 0 => pgHolds[c] > 0
        BY <1>7 DEF ReleasePg
    <2> QED
        BY <2>1, <2>2
<1>8. ASSUME NEW t \in Tasks, ReleaseNothing(t) \/ Finish(t) PROVE HoldInv'
    BY <1>8 DEF ReleaseNothing, Finish, pgVars
<1>9. ASSUME NEW i \in Instances, Close(i) PROVE HoldInv'
    BY <1>9 DEF Close, pgVars
<1>10. ASSUME NEW i \in Instances, Crash(i) PROVE HoldInv'
    BY <1>10, CrashLeaves
<1>11. CASE Tick
    BY <1>11 DEF Tick, pgVars
<1>12. CASE UNCHANGED vars
    BY <1>12 DEF vars
<1> QED
    BY <1>1, <1>2, <1>3, <1>4, <1>5, <1>6, <1>7, <1>8, <1>9, <1>10, <1>11, <1>12
    DEF Next, TaskStep

\* On PostgreSQL alone two tasks never hold the lock at once, for any number of
\* processes, of coroutines that share one and its lock.db, and of connections, with
\* calls that fail, crashes and close().  (That a release may leave the lock behind
\* on the wrong session is NoLeakedLock, which does not hold.)
THEOREM PgExclusion == LockAssumption /\ PgAlone /\ Spec => []Exclusion
<1> SUFFICES ASSUME LockAssumption, PgAlone PROVE Spec => []Exclusion
    OBVIOUS
<1>1. Init => SessionInv /\ HoldInv
    <2> SUFFICES ASSUME Init PROVE SessionInv /\ HoldInv
        OBVIOUS
    <2>1. \A i \in Instances : ~client[i]
        BY Zenon DEF Init, PgAlone
    <2> QED
        BY <2>1 DEF Init, SessionInv, HoldInv, LockAssumption
<1>2. TypeOK /\ SessionInv /\ HoldInv /\ [Next]_vars => (SessionInv /\ HoldInv)'
    BY StepSession, StepHold
<1>3. SessionInv /\ HoldInv => Exclusion
    BY OneHolder DEF SessionInv, Exclusion, HoldsLock
<1> QED
    BY <1>1, <1>2, <1>3, TypeCorrect, PTL DEF Spec
=============================================================================
