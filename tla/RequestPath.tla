----------------------------- MODULE RequestPath -----------------------------
(***************************************************************************)
(* POST /v1/classify and GET /v1/stats of app/main.py: stored answers      *)
(* (app/idempotency.py), the limits of RateLimiter, the classification     *)
(* pipeline with its cache (app/pipeline.py, app/cache.py), and the writes *)
(* to the database behind a circuit breaker (app/graceful_degradation.py). *)
(*                                                                         *)
(* A call is one request being served.  classify awaits nothing before its *)
(* first write to the database, so all up to there is one step; the answer *)
(* of the database is another.  An answer is the text it classifies and    *)
(* the thresholds it was classified with.  Ages are in ticks and stop      *)
(* where no decision tells them apart.                                     *)
(***************************************************************************)
EXTENDS RateLimiter

CONSTANTS
    Calls,          \* requests in progress at one time
    ProcOf,         \* the process of a call
    ApiKeys,        \* clients whose key and address are accepted
    Texts,
    Requests,       \* the requests that may arrive
    Thresholds,     \* the configurations of the pipeline
    Key,            \* the idempotency key of a request
    Suspicious,     \* texts with more than 5 links or 3 numbers
    IdempotencyTTL,
    FailureThreshold, Timeout,  \* of the circuit breaker
    CollectTraining,            \* settings.collect_training_data
    PipelineFails,              \* classify may raise
    None

Keys == {Key[r] : r \in Requests}
Answers == [of: Texts, under: Thresholds]

ASSUME RequestAssumption ==
    /\ ProcOf \in [Calls -> Procs] /\ IsFiniteSet(Calls)
    /\ ApiKeys \subseteq Clients
    /\ Requests \subseteq [client: Clients, text: Texts, header: BOOLEAN]
    /\ DOMAIN Key = Requests
    /\ Suspicious \subseteq Texts
    /\ IdempotencyTTL \in Nat \ {0}
    /\ FailureThreshold \in Nat \ {0} /\ Timeout \in Nat \ {0}
    /\ CollectTraining \in BOOLEAN /\ PipelineFails \in BOOLEAN
    /\ None \notin Answers \cup [answer: Answers, age: Nat]

VARIABLES
    thresholds, \* of each process's pipeline; ServiceProcess says how they change
    stored,     \* idempotency_store of each process
    cache,      \* classification_cache of each process
    breaker,    \* the database circuit breaker of each process
    call,       \* what each request being served waits for
    dbUp        \* the database answers

requestVars == <<limiterVars, thresholds, stored, cache, breaker, call, dbUp>>

Entries == [answer: Answers, age: 0..(IdempotencyTTL + 1)]

\* The fields of a CircuitBreaker, and `burst`, a history: its failures since the
\* last success, or since Timeout ticks passed without a failure.
Breakers == [state: {"closed", "open", "half_open"},
             failures: 0..FailureThreshold, age: 0..Timeout, burst: Nat]

RequestTypeOK ==
    /\ LimiterTypeOK
    /\ thresholds \in [Procs -> Thresholds]
    /\ stored \in [Procs -> [Keys -> Entries \cup {None}]]
    /\ cache \in [Procs -> [Texts -> Answers \cup {None}]]
    /\ breaker \in [Procs -> Breakers]
    /\ call \in [Calls -> {"idle", "log", "error", "train", "broken"}]
    /\ dbUp \in BOOLEAN

\* A process after start-up; last_failure_time is not set.
NewBreaker == [state |-> "closed", failures |-> 0, age |-> Timeout, burst |-> 0]
EmptyCache == [x \in Texts |-> None]

RequestInit ==
    /\ LimiterInit
    /\ thresholds \in [Procs -> Thresholds]
    /\ stored = [p \in Procs |-> [k \in Keys |-> None]]
    /\ cache = [p \in Procs |-> EmptyCache]
    /\ breaker = [p \in Procs |-> NewBreaker]
    /\ call = [c \in Calls |-> "idle"]
    /\ dbUp \in BOOLEAN

Proc(c) == ProcOf[c]

-----------------------------------------------------------------------------
(* CircuitBreaker *)

\* can_call, with the state it leaves behind.
MayCall(b) == b.state # "open" \/ b.age >= Timeout
BugProbes(b) == IF b.state = "open" /\ b.age >= Timeout THEN [b EXCEPT !.state = "probing"] ELSE b
Asked(b) == IF b.state = "open" /\ b.age >= Timeout THEN [b EXCEPT !.state = "half_open"] ELSE b

\* record_success, whenever the call began.
BugKeepsState(b) == [b EXCEPT !.failures = 0, !.burst = 0]
Succeeded(b) == [b EXCEPT !.failures = 0, !.state = "closed", !.burst = 0]

\* record_failure
BugOpensLate(b) ==
    [b EXCEPT !.state = IF b.failures >= FailureThreshold THEN "open" ELSE @,
              !.failures = UpTo(b.failures + 1, FailureThreshold), !.age = 0, !.burst = @ + 1]
Failed(b) ==
    LET n == UpTo(b.failures + 1, FailureThreshold) IN
    [state |-> IF n >= FailureThreshold THEN "open" ELSE b.state, failures |-> n, age |-> 0,
     burst |-> b.burst + 1]

\* The time since last_failure_time.
AgedBreaker(b) ==
    LET age == UpTo(b.age + 1, Timeout) IN
    [b EXCEPT !.age = age, !.burst = IF age >= Timeout THEN 0 ELSE @]

-----------------------------------------------------------------------------
(* Stored answers *)

\* check_idempotency: entries older than the TTL go; one that is exactly as old
\* stays, and is not used.
Expired(e) == e # None /\ e.age > IdempotencyTTL

BugShortLived(e) == e # None /\ e.age < IdempotencyTTL - 1
Fresh(e) == e # None /\ e.age < IdempotencyTTL

Kept(s) == [k \in Keys |-> IF Expired(s[k]) THEN None ELSE s[k]]

Store(s, k, a) == [s EXCEPT ![k] = [answer |-> a, age |-> 0]]

-----------------------------------------------------------------------------
(* The pipeline *)

\* get and set of ClassificationCache return early `if not self.cache`: a TTLCache
\* without entries is falsy.
Unusable(entries) == entries = EmptyCache

Cached(entries, x) == IF Unusable(entries) THEN None ELSE entries[x]

CacheSet(entries, x, a) == IF Unusable(entries) THEN entries ELSE [entries EXCEPT ![x] = a]

\* classify: the scores depend on the text, the labels on the thresholds too.
Classified(p, x) ==
    IF Cached(cache[p], x) # None THEN Cached(cache[p], x)
    ELSE [of |-> x, under |-> thresholds[p]]

-----------------------------------------------------------------------------
(* POST /v1/classify *)

\* validate_api_key and check_ip_whitelist: the others are refused at once.
Accepted(r) == r.client \in ApiKeys

\* The key is the Idempotency-Key header, or a hash of key, path and body.
Received(c, r) == call[c] = "idle" /\ Accepted(r)
Stored(c, r) == Kept(stored[Proc(c)])[Key[r]]

\* A repeated request is answered from the store, before any limit.
Replay(c, r) ==
    /\ Received(c, r)
    /\ Fresh(Stored(c, r))
    /\ stored' = [stored EXCEPT ![Proc(c)] = Kept(@)]
    /\ UNCHANGED <<limiterVars, thresholds, cache, breaker, call, dbUp>>

\* 429, from check_rate_limit or from check_waf.
TurnedAway(c, r) ==
    LET p == Proc(c) IN
    /\ Received(c, r)
    /\ ~Fresh(Stored(c, r))
    /\ \/ /\ CheckRateLimit(p, r.client, FALSE)
          /\ UNCHANGED bursts
       \/ /\ CheckRateLimit(p, r.client, TRUE)
          /\ CheckWaf(p, r.client, r.text \in Suspicious, FALSE)
    /\ stored' = [stored EXCEPT ![p] = Kept(@)]
    /\ UNCHANGED <<thresholds, cache, breaker, call, dbUp>>

\* graceful_db_fallback: the write is made, or skipped while the breaker is open.
Write(c, b, there, otherwise) ==
    /\ call' = [call EXCEPT ![c] = IF MayCall(b) THEN there ELSE otherwise]
    /\ breaker' = [breaker EXCEPT ![Proc(c)] = Asked(b)]

\* A new answer: classified, stored for repetitions, then logged.
Classify(c, r) ==
    LET p == Proc(c)
        answer == Classified(p, r.text) IN
    /\ Received(c, r)
    /\ ~Fresh(Stored(c, r))
    /\ CheckRateLimit(p, r.client, TRUE)
    /\ CheckWaf(p, r.client, r.text \in Suspicious, TRUE)
    /\ cache' = [cache EXCEPT ![p] = CacheSet(@, r.text, answer)]
    /\ stored' = [stored EXCEPT ![p] = Store(Kept(@), Key[r], answer)]
    /\ Write(c, breaker[p], "log", "idle")
    /\ UNCHANGED <<thresholds, dbUp>>

\* The pipeline raises: nothing is stored, the error is logged, 500.
ClassifyFails(c, r) ==
    LET p == Proc(c) IN
    /\ PipelineFails
    /\ Received(c, r)
    /\ ~Fresh(Stored(c, r))
    /\ CheckRateLimit(p, r.client, TRUE)
    /\ CheckWaf(p, r.client, r.text \in Suspicious, TRUE)
    /\ stored' = [stored EXCEPT ![p] = Kept(@)]
    /\ Write(c, breaker[p], "error", "idle")
    /\ UNCHANGED <<thresholds, cache, dbUp>>

\* The database's answer to a write, counted by the breaker; a failed log leaves
\* a session that refuses the training example that follows.
LogAnswered(c) ==
    LET b == IF dbUp THEN Succeeded(breaker[Proc(c)]) ELSE Failed(breaker[Proc(c)]) IN
    /\ call[c] = "log"
    /\ IF CollectTraining
       THEN Write(c, b, IF dbUp THEN "train" ELSE "broken", "idle")
       ELSE /\ call' = [call EXCEPT ![c] = "idle"]
            /\ breaker' = [breaker EXCEPT ![Proc(c)] = b]
    /\ UNCHANGED <<limiterVars, thresholds, stored, cache, dbUp>>

LastWriteAnswered(c) ==
    /\ call[c] \in {"error", "train", "broken"}
    /\ call' = [call EXCEPT ![c] = "idle"]
    /\ breaker' = [breaker EXCEPT ![Proc(c)] =
            IF dbUp /\ call[c] # "broken" THEN Succeeded(@) ELSE Failed(@)]
    /\ UNCHANGED <<limiterVars, thresholds, stored, cache, dbUp>>

\* GET /v1/stats takes from the same limit; its database calls have no breaker.
Stats(c, client) ==
    /\ call[c] = "idle" /\ client \in ApiKeys
    /\ \E ok \in BOOLEAN : CheckRateLimit(Proc(c), client, ok)
    /\ UNCHANGED <<bursts, thresholds, stored, cache, breaker, call, dbUp>>

-----------------------------------------------------------------------------
(* The surroundings *)

\* The callback of the configuration manager: thresholds, then a new cache.
ApplyConfig(p, t) ==
    /\ thresholds' = [thresholds EXCEPT ![p] = t]
    /\ cache' = [cache EXCEPT ![p] = EmptyCache]
    /\ UNCHANGED <<limiterVars, stored, breaker, call, dbUp>>

DatabaseFails ==
    /\ dbUp
    /\ dbUp' = FALSE
    /\ UNCHANGED <<limiterVars, thresholds, stored, cache, breaker, call>>

DatabaseReturns ==
    /\ ~dbUp
    /\ dbUp' = TRUE
    /\ UNCHANGED <<limiterVars, thresholds, stored, cache, breaker, call>>

AgedEntry(e) == IF e = None THEN None ELSE [e EXCEPT !.age = UpTo(@ + 1, IdempotencyTTL + 1)]

RequestTick ==
    /\ LimiterTick
    /\ stored' = [p \in Procs |-> [k \in Keys |-> AgedEntry(stored[p][k])]]
    /\ breaker' = [p \in Procs |-> AgedBreaker(breaker[p])]
    /\ UNCHANGED <<thresholds, cache, call, dbUp>>

Answered(c) == LogAnswered(c) \/ LastWriteAnswered(c)

RequestNext ==
    \/ \E c \in Calls, r \in Requests :
          Replay(c, r) \/ TurnedAway(c, r) \/ Classify(c, r) \/ ClassifyFails(c, r)
    \/ \E c \in Calls : Answered(c)
    \/ \E c \in Calls, client \in Clients : Stats(c, client)
    \/ \E p \in Procs, t \in Thresholds : ApplyConfig(p, t)
    \/ DatabaseFails \/ DatabaseReturns
    \/ RequestTick

RequestSpec == RequestInit /\ [][RequestNext]_requestVars

\* The database answers or fails every call, time goes on, and each process
\* keeps getting requests that pass its limits.
RequestFairSpec ==
    /\ RequestSpec
    /\ WF_requestVars(RequestTick)
    /\ \A c \in Calls : WF_requestVars(Answered(c))
    /\ \A p \in Procs :
          SF_requestVars(\E c \in Calls, r \in Requests : ProcOf[c] = p /\ Classify(c, r))

-----------------------------------------------------------------------------
CallsOf(p) == {c \in Calls : ProcOf[c] = p}

\* The breaker shields a database that stays down: half_open and the calls that
\* began before it opened let some writes more through, but between two successes,
\* or two spells of Timeout without a failure, a process runs into at most
\* FailureThreshold - 1 failures and one for each call it serves at a time.
FailuresBounded ==
    \A p \in Procs :
        breaker[p].burst <= FailureThreshold - 1 + Cardinality(CallsOf(p))

\* When the database is back for good, the breakers close, and stay closed.
BreakersRecover ==
    <>[]dbUp => <>[](\A p \in Procs : breaker[p].state = "closed")

\* For the whole TTL a key keeps its first answer: no later request with it, no
\* new threshold, and no refused or failing request changes or drops it.
AnswerKept ==
    [][\A p \in Procs, k \in Keys :
         stored[p][k] # None /\ stored[p][k].age < IdempotencyTTL =>
            stored'[p][k] # None /\ stored'[p][k].answer = stored[p][k].answer]_requestVars

=============================================================================
