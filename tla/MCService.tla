------------------------------ MODULE MCService ------------------------------
\* Instances for TLC of what PATAS processes do side by side, one part after the
\* other: the request path of one process (RequestPath), the limiter of two that
\* share a Redis server (RateLimiter), start-up and configuration (ServiceProcess),
\* the lock on Redis and on PostgreSQL (DistributedLock), and the life of rules
\* under promotion, monitor and mining (RulePromotion).
EXTENDS RequestPath, MCDistributedLock, MCRulePromotion

CONSTANTS s1, s2, q1, q2, k1, k2, x, y, low, high, MaxEdits, Soft, Locks

VARIABLES part, stage, degraded, locking, file, config, seen, applied, edits, unseen

\* Two calls of one process; k1 sends a header with one of its texts, k2 is refused.
OneProc == (q1 :> s1) @@ (q2 :> s1)
Plain(k, t) == [client |-> k, text |-> t, header |-> FALSE]
Named(k, t) == [client |-> k, text |-> t, header |-> TRUE]
MCRequests == {Plain(k1, x), Named(k1, y), Plain(k2, y)}
MCKey == (Plain(k1, x) :> 1) @@ (Named(k1, y) :> 2) @@ (Plain(k2, y) :> 3)

Process == INSTANCE ServiceProcess WITH pc <- stage, lock <- locking

ASSUME Process!ServiceAssumption

answerVars == <<thresholds, stored, cache, breaker, call, dbUp>>
processVars == <<stage, degraded, locking, file, config, seen, applied, edits, unseen>>
allVars == <<requestVars, processVars, vars, promotionVars, part>>

LockParts == {"redis", "postgres"}

\* The parts that do not run have one initial state.
MCInit ==
    /\ part \in {"requests", "fleet", "process", "promotion"} \cup LockParts
    /\ RequestInit /\ thresholds[s2] = low /\ Process!ServiceInit /\ PromotionInit
    /\ part # "requests" => dbUp /\ thresholds[s1] = low
    /\ part # "process" => file.kind = "absent"
    /\ IF part = "postgres" THEN Postgres!Init ELSE Init

\* The requests come to s1, while Redis is down; in the fleet both processes
\* serve one client, and Redis fails and returns.
WithoutRedis == UNCHANGED zset /\ thresholds'[s2] = thresholds[s2]
OneClient == zset'[k2] = zset[k2] /\ passed'[k2] = passed[k2]

ServiceNext ==
    \/ part = "requests" /\ RequestNext /\ WithoutRedis /\ UNCHANGED processVars
    \/ part = "fleet" /\ LimiterNext /\ OneClient /\ UNCHANGED <<answerVars, processVars>>
    \/ part = "process" /\ Process!ServiceNext /\ UNCHANGED requestVars

MCNext ==
    \/ ServiceNext /\ UNCHANGED <<vars, promotionVars, part>>
    \/ /\ IF part = "postgres" THEN Postgres!Next ELSE part = "redis" /\ Next
       /\ UNCHANGED <<requestVars, processVars, promotionVars, part>>
    \/ /\ part = "promotion" /\ PromotionNext
       /\ UNCHANGED <<requestVars, processVars, vars, part>>

\* The fairness of each part while it is the one that runs.
MCSpec ==
    /\ MCInit /\ [][MCNext]_allVars
    /\ WF_requestVars(part = "requests" /\ RequestTick)
    /\ \A c \in Calls : WF_requestVars(part = "requests" /\ Answered(c))
    /\ SF_requestVars(/\ part = "requests"
                      /\ \E c \in Calls, r \in Requests : Classify(c, r)
                      /\ WithoutRedis)
    /\ WF_processVars(part = "process" /\ Process!ServiceStep)
    /\ WF_vars(part \in LockParts /\ Tick)
    /\ \A t \in Tasks : WF_vars(part \in LockParts /\ Heartbeat(t))
    /\ \A t \in PromotionTasks :
          /\ WF_promotionVars(part = "promotion" /\ Continue(t))
          /\ WF_promotionVars(part = "promotion" /\ Start(t))

\* ConfigConverges of ServiceProcess.
ConfigConverges == Process!ConfigConverges
=============================================================================
