----------------------------- MODULE ResultCache -----------------------------
(***************************************************************************)
(* The cache of LLM results: the decorator cache_result of app/llm_cache.py*)
(* around the calls of app/llm_rule_refiner.py, and the endpoints of       *)
(* app/main.py that invalidate it.                                         *)
(*                                                                         *)
(* An entry is written to Redis, or, without Redis or when it fails, to a  *)
(* SQLite file; it is looked for in Redis, then in SQLite.  The version of *)
(* the model is part of its key and belongs to a process.  A call waits    *)
(* for the LLM between its lookup and its store; the steps of other calls  *)
(* and processes come in between.  What the LLM says is left out: a result *)
(* is the version under which its call began.  Here any process may do     *)
(* both; at present scripts make the calls and the API has the endpoints.  *)
(***************************************************************************)
EXTENDS Integers

CONSTANTS
    Procs, Calls, ProcOf,
    Payloads,   \* arguments of the cached function
    Versions,   \* model versions that may be set
    Default,    \* _CURRENT_MODEL_VERSION of a new process
    TTL,
    MaxTime,    \* bound: the clock stops here
    None

\* What the constants are; a module that instantiates this one assumes it.
ResultAssumption ==
    /\ ProcOf \in [Calls -> Procs]
    /\ Default \in Versions
    /\ TTL \in Nat \ {0} /\ MaxTime \in Nat
    /\ None \notin [by: Versions, at: Nat] \cup [by: Versions, at: Nat, for: Versions, seen: Nat]

VARIABLES
    now,
    model,     \* _CURRENT_MODEL_VERSION of each process
    online,    \* the process has a Redis client
    inRedis, inSqlite,
    asking,    \* the calls that wait for the LLM
    served     \* history: the last result a call took from the cache

resultVars == <<now, model, online, inRedis, inSqlite, asking, served>>

Names == Payloads \X Versions                \* what _make_key hashes
Results == [by: Versions, at: 0..MaxTime]    \* computed under, stored at

ResultTypeOK ==
    /\ now \in 0..MaxTime
    /\ model \in [Procs -> Versions]
    /\ online \in [Procs -> BOOLEAN]
    /\ inRedis \in [Names -> Results \cup {None}]
    /\ inSqlite \in [Names -> Results \cup {None}]
    /\ asking \in [Calls -> [name: Names, by: Versions] \cup {None}]
    /\ served \in [by: Versions, at: 0..MaxTime, for: Versions, seen: 0..MaxTime] \cup {None}

Nothing == [n \in Names |-> None]

ResultInit ==
    /\ now = 0
    /\ model = [p \in Procs |-> Default]
    /\ online \in [Procs -> BOOLEAN]
    /\ inRedis = Nothing /\ inSqlite = Nothing
    /\ asking = [c \in Calls |-> None]
    /\ served = None

Model(c) == model[ProcOf[c]]
Online(c) == online[ProcOf[c]]

-----------------------------------------------------------------------------
(* A cached call, up to the LLM: LLMCache.get *)

BugNeverOutdated(n) == FALSE
Outdated(n) == inSqlite[n].at + TTL < now

Begins(c, n) == asking[c] = None /\ n[2] = Model(c)

Serves(tier, n) ==
    /\ served' = [by |-> tier[n].by, at |-> tier[n].at, for |-> n[2], seen |-> now]
    /\ UNCHANGED <<now, model, online, inRedis, inSqlite, asking>>

HitRedis(c, n) ==
    /\ Begins(c, n)
    /\ Online(c) /\ inRedis[n] # None
    /\ Serves(inRedis, n)

\* A call to Redis may fail, whatever is there: SQLite is asked.
HitSqlite(c, n) ==
    /\ Begins(c, n)
    /\ inSqlite[n] # None /\ ~Outdated(n)
    /\ Serves(inSqlite, n)

\* Neither has it; an outdated row is deleted.  A call to SQLite may fail.
Miss(c, n) ==
    /\ Begins(c, n)
    /\ asking' = [asking EXCEPT ![c] = [name |-> n, by |-> Model(c)]]
    /\ inSqlite' \in {inSqlite,
                      IF inSqlite[n] # None /\ Outdated(n)
                      THEN [inSqlite EXCEPT ![n] = None] ELSE inSqlite}
    /\ UNCHANGED <<now, model, online, inRedis, served>>

-----------------------------------------------------------------------------
(* and after it: LLMCache.set *)

\* The key holds the version of before the call to the LLM.
BugRereads(c) == <<asking[c].name[1], Model(c)>>
StoreUnder(c) == asking[c].name

Put(tier, c) == [tier EXCEPT ![StoreUnder(c)] = [by |-> asking[c].by, at |-> now]]

Done(c) ==
    /\ asking[c] # None
    /\ asking' = [asking EXCEPT ![c] = None]
    /\ UNCHANGED <<now, model, online, served>>

StoreRedis(c) ==
    /\ Done(c)
    /\ Online(c)
    /\ inRedis' = Put(inRedis, c)
    /\ UNCHANGED inSqlite

\* Redis failed, perhaps after it stored the entry.
StoreSqlite(c) ==
    /\ Done(c)
    /\ inSqlite' = Put(inSqlite, c)
    /\ inRedis' \in {inRedis} \cup IF Online(c) THEN {Put(inRedis, c)} ELSE {}

\* The LLM failed (no result), or nothing could be stored.
StoreNothing(c) ==
    /\ Done(c)
    /\ UNCHANGED <<inRedis, inSqlite>>

-----------------------------------------------------------------------------
(* POST /llm-cache/invalidate and /llm-cache/model-version *)

Without(tier, v) == [n \in Names |-> IF n[2] = v THEN None ELSE tier[n]]

\* invalidate_by_model: either tier may fail, on its own.
Remove(p, v) ==
    /\ inRedis' \in {inRedis} \cup IF online[p] THEN {Without(inRedis, v)} ELSE {}
    /\ inSqlite' \in {inSqlite, Without(inSqlite, v)}

Invalidate(p) ==
    /\ Remove(p, model[p])
    /\ UNCHANGED <<now, model, online, asking, served>>

\* What is removed are the entries of the new version.
SetModelVersion(p, v) ==
    /\ v # model[p]
    /\ model' = [model EXCEPT ![p] = v]
    /\ Remove(p, v)
    /\ UNCHANGED <<now, online, asking, served>>

\* A process ends, with its calls, and another takes its place.
Restart(p) ==
    /\ model' = [model EXCEPT ![p] = Default]
    /\ \E up \in BOOLEAN : online' = [online EXCEPT ![p] = up]
    /\ asking' = [c \in Calls |-> IF ProcOf[c] = p THEN None ELSE asking[c]]
    /\ UNCHANGED <<now, inRedis, inSqlite, served>>

\* Redis drops an entry when its time is up.
Tick ==
    /\ now < MaxTime
    /\ now' = now + 1
    /\ inRedis' = [n \in Names |-> IF inRedis[n] # None /\ inRedis[n].at + TTL <= now + 1
                                   THEN None ELSE inRedis[n]]
    /\ UNCHANGED <<model, online, inSqlite, asking, served>>

ResultNext ==
    \/ \E c \in Calls, n \in Names : HitRedis(c, n) \/ HitSqlite(c, n) \/ Miss(c, n)
    \/ \E c \in Calls : StoreRedis(c) \/ StoreSqlite(c) \/ StoreNothing(c)
    \/ \E p \in Procs : Invalidate(p) \/ Restart(p)
    \/ \E p \in Procs, v \in Versions : SetModelVersion(p, v)
    \/ Tick

ResultSpec == ResultInit /\ [][ResultNext]_resultVars

-----------------------------------------------------------------------------
\* A call is served, and both tiers keep, only results whose computation began
\* under the version of the key, however the version changes while the LLM works.
ResultOfOwnVersion ==
    /\ \A tier \in {inRedis, inSqlite} : \A n \in Names :
          tier[n] # None => tier[n].by = n[2]
    /\ served # None => served.by = served.for

\* A result is served for one TTL at most, from whichever tier, also when Redis
\* comes and goes between the store and the lookup.
ResultFresh == served # None => served.seen - served.at <= TTL
=============================================================================
