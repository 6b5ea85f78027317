# PATAS in TLA+

PATAS (`src/app`) finds spam campaigns in message logs and turns them into SQL
blocking rules: it ingests messages, mines patterns from them, keeps a life
cycle of rules with evaluation, promotion and monitoring, and serves this over
an HTTP API and a command line.  Several processes share one SQL database, a
Redis server and external services (the TAS log API, LLM and embedding
services), and most code is `asyncio` coroutines: what is hard is what happens
between two awaits.

This directory holds models of that code, the TLC runs that check them, and
TLAPS proofs about them.  Line numbers are in `PROJECT.json` (`map`), which
names for each definition the code it stands for.

## 1. Inventory

### The core

| component | state | operations | interacts with | correct when |
|---|---|---|---|---|
| Distributed lock (`distributed_lock.py`) | Redis key with token and TTL; PostgreSQL advisory locks on connections; `lock.db` and the Redis client of a process | `acquire`, heartbeat, release, fallback to PostgreSQL, `close` | mining, promotion, monitor | on one server, two callers are never both told they hold it; a lease ends with its holder; nobody ends another's lease |
| Rule life cycle (`v2_rule_lifecycle.py`) | `rules.status`, the copy of it in each session | `move_to_shadow`, `promote_to_active`, `deprecate_rule`, `rollback` | mining, promotion | candidate, shadow, active, deprecated, and nothing back |
| Promotion and monitoring (`v2_promotion.py`) | latest evaluation of each rule, thresholds of a profile | `promote_shadow_rules`, `monitor_active_rules`, exports | lock, life cycle, API, CLI | only evaluated, good rules are active; bad ones leave |
| Pattern mining and checkpoints (`v2_pattern_mining.py`) | messages, checkpoint rows (position, signals, status), patterns, rules | `mine_patterns`, `resume_from_checkpoint`, chunk processing, pattern and rule creation | repositories, lock, LLM, embeddings, life cycle | each message counts once, also over an interruption; no pattern is created twice |
| Ingestion (`v2_ingestion.py`) | messages with unique `external_id`, the session of a call | fetch with endpoints and retries, `ingest_batch`, bulk and single inserts | TAS API, repositories, API, CLI | nothing is lost, and nothing with an id stored twice; what is reported as ingested is stored (that the count leaves out what others stored is what the docstrings say and the code does not do) |
| Embeddings and cache (`v2_embedding_engine.py`, `embedding_cache.py`) | Redis entries, SQLite rows, a TTL map per process | `generate_embeddings`, `get_batch`, `set_batch` | semantic mining | the vector of a text is its own and not too old |
| Shadow evaluation (`v2_shadow_evaluation.py`) | evaluations of rules, the session its workers share | `evaluate_rule`, `evaluate_all_shadow_rules` | rules, promotion, API, CLI, harness | a pass answers for the rules it chose and chose the best; a valid rule gets an evaluation |
| Two-stage pipeline, semantic mining (`v2_two_stage_pipeline.py`, `v2_semantic_mining.py`) | a second kind of checkpoint around nested mining runs; clusters | stage 1, stage 2, resume; clusters to patterns and rules | mining, embeddings | a completed checkpoint has all its stages; what is reported is stored |
| LLM result cache (`llm_cache.py`) | Redis or SQLite entries by payload and model version; the version of a process | `cache_result`, `set_model_version`, `invalidate_cache` | rule refiner, evolver, API | a result belongs to the version it is served for and is not too old |
| Rule safety (`v2_sql_safety.py`, `v2_rule_safety_classifier.py`, quality tiers and modes) | none | checks of SQL text, scores, tiers | mining, promotion, exports | the classifications agree with each other; what is dangerous never runs |
| PATAS API (`api/main.py`) | none of its own | ingest, mine, evaluate, promote; lists, exports, `analyze` | all of the above | a client that pages or analyses misses no rule |
| Request path (`main.py`, `security.py`, `idempotency.py`, `cache.py`, `graceful_degradation.py`, `config_manager.py`) | rate-limit windows, breaker, stored responses, classification cache, configuration | start-up, `classify`, `stats`, reload | database, Redis | limits hold, a retry gets the same answer, breakers and configuration recover |

### The rest

Message queue (`mq.py`), audit log (`audit.py`), observability, PII redaction,
reports, integration client and adapters, legacy analyzer, scripts.  They keep
little state or none that a decision reads; `PROJECT.json` lists each with the
reason it is left out.  `cost_guard.py` and `secret_rotation.py` are imported by
nothing, and `v2_routes.py`, through which the queue would be reached, is an empty
router.

### What is hard here

* *Shared mutable objects across awaits.* One `DistributedLock` per process, whose
  `db` every caller overwrites; sessions that keep the attributes they first
  read; one `AsyncSession` used by parallel workers.
* *Check, then act.* Duplicate checks before inserts, status checks before
  unconditional updates, checkpoint status before RUNNING.
* *Two stores that must agree.* Redis and PostgreSQL locks; Redis, SQLite and
  local cache tiers; a pattern and its rule, committed separately.
* *Failure in the middle.* Every repository call commits; a run can stop between
  any two, and a failed commit leaves a session that refuses further work.
* *Order.* Mining reads newest first and saves a position by id; answers of
  overlapping calls reach a breaker in any order; pages of a list are cut while
  its rows change.
* *The same decision written twice.* Thresholds of promotion and degradation,
  safety classes and heuristics, the bounds of tiers, labels and short cuts.

`PROJECT.json` lists these as hazards, each at the line where it bites, with the
properties that watch it or the reason why none does yet.

## 2. Modules

| module | models | its runs |
|---|---|---|
| `AbstractLock` | what a lock with leases promises | refined in `service` |
| `DistributedLock` | the lock, its callers, both servers | `service`, `background`, `lock_work`, `lock_leak` |
| `RulePromotion` | life cycle, promotion, monitor, the rules a mining run moves | `service`, `promotion_races`, `promotion_endpoint` |
| `PatternMining` | mining, resuming, checkpoints, pattern creation | `background`, `mining_resume` |
| `Analysis` | all that happens to messages and rules, side by side: the next six rows | `analysis` |
| `TwoStage` | the two-stage pipeline around mining runs, its checkpoint | `analysis` |
| `RuleDiscovery` | from counted features, an LLM's answer and clusters to rules | `analysis` |
| `Ingestion` | fetch, files, batches, inserts, the ingest endpoint | `analysis`, `ingest_count` |
| `ShadowEvaluation` | a pass over the rules in SHADOW | `analysis`, `shadow` |
| `OrderedFilter` | the part of an ordered sequence that satisfies a condition, as a function (used by the two above) | |
| `SqlSafety`, `RuleSafety` | the checks of a rule's SQL; classes, tiers, modes (operators) | `analysis` |
| `Classifier` | scores and labels of a text (operators) | `model_decides` |
| `Reads` | what is read while it changes, side by side: the next three rows | `reads` |
| `EmbeddingCache` | the embedding engines over the three cache tiers | `reads` |
| `ResultCache` | the cache of LLM results and its model version | `reads` |
| `PatasApi` | what clients of the API read while rules change | `reads` |
| `RateLimiter` | the request limits, on Redis and in memory | `service` |
| `RequestPath` | `classify` and `stats`, stored answers, the breaker | `service` |
| `ServiceProcess` | start-up and the configuration thread | `service` |
| `MC...` | constants of the runs | |
| `FiniteSums` | lemmas: induction over numbers and finite sets, sums over finite sets | |
| `...Proofs` | theorems (section 4) | |

Common conventions.  A *task* or *call* is one coroutine.  A step is the code
between two awaits on a server, together with the server's answer.  Failures
are choices, most of them switched on by a member of `Faults`, so that a run says
what it assumes.  A definition named `Bug...` is a plausible mistake in the
definition after it; it is part of no specification and serves to test that the
properties can fail.

`RequestPath` extends `RateLimiter`, `RuleDiscovery` extends `RuleSafety`, which
extends `SqlSafety`, and so does `ShadowEvaluation`: those compositions are of
components that call each other.  `Analysis`, `Reads`, `MCService` and
`MCBackground` put machines that do *not* share state next to each other: a variable
`part`, chosen in the initial state and never changed, says which machine moves,
the others stay in a single initial state.  Nothing is claimed there about their
interleaving; TLC explores the union of the parts' state graphs in one run, and each
property is about its own part.  The theorems about the properties of
`Analysis` and `Reads` are about those specifications, `AnalysisSpec` and
`ReadsSpec`; the theorems about the parts of `MCService` and `MCBackground` are about
each part's own specification.  To stand in one module with another, names that two
parts would share carry the part's name (`RequestInit`, `PromotionInit`,
`MiningTypeOK`).

### DistributedLock

`lease` is the Redis key, `pgHolds` the advisory locks by connection, `conn` the
connection a session has checked out, `db` the attribute `lock.db`, `client`
whether `redis_client` is set, `token`/`pgLock` the local variables of
`acquire`, `sess` the session its calls really run on, `beat` the heartbeat.
`acquire` is split at its awaits: the Redis `SET NX EX`, the PostgreSQL try, the
body, the release on each.  A refusal by Redis falls through to PostgreSQL, as
in the code (line 272): with both servers, a task on Redis and one on
PostgreSQL hold the lock at once, which is a hazard in `PROJECT.json` and no run
claims otherwise.  After the block a task is at `work`: that is where the
callers do what the lock should guard.  `sess` is what makes a release wrong: the
unlock goes to the session that `lock.db` names by then.  `Begin` gives the
connections of sessions that were left (`Abandoned`) back to the pool.

### RulePromotion

`status` and `evals` are the tables, `todo` the list a loop has loaded: a task
checks the status the rule had when it was listed (SQLAlchemy identity map,
`expire_on_commit=False`) and its UPDATE is unconditional.  `read` is the
evaluation in hand between the read and the decision.  Evaluations are whatever
`RuleEvaluationRepository.create` may store; `evaluate_rule` itself currently
returns None for every rule (run `shadow`).  The `ValueError` of the log message
in `promote_shadow_rules` is modelled: it ends the call at its first decision.

### PatternMining, TwoStage and RuleDiscovery

Three views of a mining run, each with what its hazards need.

`PatternMining` is the run over the messages table, with overlap, stops and
resumes.  `cps` are the checkpoint rows, `run` the local variables of a call.
Messages are listed newest first and cut into chunks and parallel batches; after
each batch the position and the signals are saved, where the save may fail; a
run may stop between any two steps and be resumed.  Then each feature over the
threshold goes through check, create pattern, create rule.

`TwoStage` is the pipeline that calls it twice.  `checkpoint` are rows of the same
table, reduced to status, stage, and whether patterns were saved; `task` is a
call of either pipeline with `seen`, the row as its session loaded it:
`CheckpointRepository.update` writes only what differs from that.  A row made by
one pipeline may be resumed by the other, as the `resume-mining` command does when
the setting changed.  `did` is the history of the stages that ran to their end.

`RuleDiscovery` is one run after its features are counted: the filters of URLs,
keywords and signatures, the patterns and rules of the LLM's answer with their
tiers and risks, the semantic stage with one rule for each cluster that is kept,
and the sanitising of what is dangerous.  A feature is a record of what the
filters ask of it, and the text of a rule a record of what the checks of
`SqlSafety` look for.

### Ingestion

`rows` counts the rows with given contents, `call` the local variables of a
request.  Four sources: the TAS log API over endpoints, retries and rate-limit
answers, storage files with lines, an array or something else, CSV files, and the
ingest endpoint.  Then the duplicate check, the bulk insert (skipping conflicts
where the dialect can, chosen in Init), the loop of single inserts that replaces
a failed bulk insert, the loop that `create` uses, and the read back of the
endpoint.  `dead` is a session whose commit failed and was not rolled back;
`owed` what the call must not lose, `added` what it inserted, `lost` that a commit of
it never got its answer (`BulkAnswerLost`, `InsertAnswerLost`), after which `Retry`
goes over the batch again.  `count` is what the code returns, the skipped rows
included.

### ShadowEvaluation

`shadow` are the rules in SHADOW, newest first, `latest` their newest precision,
`pass` the lists a pass has made and `queue` what each worker has left.  The bound
`max_shadow_rules_to_evaluate` sorts by latest precision before it cuts.  The
harness calls the same pass and then promotes.  The repair of the SQL renames a table
only where the code's pattern matches it, after `FROM` and before white space
(`Replaceable`, `Renamed`).

### SqlSafety, RuleSafety and Classifier

Operators, no state.  A text is a record of what the code searches it for, with
the two ways the checks see it: with the library `sqlparse` and, when that is
missing or raises, with regular expressions.  `RuleSafety` has the classifier of
rules, the safety heuristics, the risk of the API, the tiers of patterns with
their profiles and the modes.  In `Classifier`, scores are exact whole numbers;
where floating point may fall on either side of a bound, both outcomes count.

### EmbeddingCache and ResultCache

`redis`, `sqlite` and `local` map texts to entries with the time they were
computed and the time they live until; `call` is `generate_embeddings`: lookup
text by text, then one request per batch, then `set_batch` and the merge by
position.  Calls of one process do not interleave inside lookup and store (there
is no await), calls of different processes do.  An answer may be short, which
the HTTP engine only logs.  A lookup, and a store, of one text is a single step:
the commands to the tiers inside it are not interleaved with those of other
processes.

`ResultCache` is the decorator `cache_result`: the key holds the model version of
the process, `asking` are the calls that wait for the LLM while the version is
set, the cache invalidated, or Redis lost.

### PatasApi

`rule` is the table, `request` one client: a walk through the pages of
`GET /rules`, `POST /analyze`, or an export, each query a step, with creations,
promotions and evaluations in between.  `owed` are the rules that were there from
the beginning and only moved forward, `seen` what the client was told.

### RateLimiter, RequestPath and ServiceProcess

`RateLimiter`: `zset` is the sorted set in Redis, `mem` the windows each process
keeps for itself when Redis is not configured or fails, `bursts` the counts of
`check_waf`; `passed` is the history of what was admitted.  `RequestPath` adds the
stored answers of a process by key, its database breaker and the calls that wait
for the database; a call does everything up to its first write without an await.
`ServiceProcess` is the lifespan of `app.main`, with the budget the database and
the lock get, and the thread that reads and compares `config.yaml` in separate
accesses to the file while it is edited.

## 3. What the runs check

Four runs pass, each over several parts (`part`), and eight state what a docstring,
a comment or a test of the repository says and are violated.

| run, part | bounds | shows |
|---|---|---|
| `service`, redis | 4 tasks on 3 processes, two of them on one and one on a process with locks disabled; 3 tokens, TTL 3, heartbeat 2, Redis errors, crashes | `Exclusion`, `HolderKeepsLease`; the lock implements `AbstractLock`; `OrphanLeaseEnds` |
| `service`, postgres | the same tasks, two of which share `lock.db`; 4 connections, errors of PostgreSQL, crashes, `close` | `Exclusion` |
| `service`, promotion | 2 rules, one promotion, monitor and mining call each, repeated; 4 evaluations, one per way through the thresholds | `ActiveWasEvaluated`, `NoPromotionOfDegraded`, `DegradedRuleLeaves` |
| `service`, requests | 2 processes, of which one serves, without Redis; 2 overlapping calls, 2 clients, 3 kinds of request, limit 2 in a window of 2, stored answers for 1 tick, breaker at 2 failures | `FailuresBounded`, `AnswerKept`, `BreakersRecover` |
| `service`, fleet | 2 processes on one Redis that fails and returns, one client, limit 2 in a window of 2 | `AdmittedBounded` |
| `service`, process | start-up, and 3 edits of the file that write, spoil, remove or restore it | `ConfigConverges` |
| `background`, mining | 4 messages with ids and timestamps in different order, 2 features, 2 calls, 2 checkpoints, a duplicate check that sees 4 patterns; stops and failed saves | `MiningCountsOnce`, `SavedIsPrefix`, `DuplicatesBounded` |
| `background`, faults | 2 tasks and one on a process that does not lock, 3 tokens, both servers, all seven faults of the lock | `LeaseEndsByTTL`: only the TTL ends the lease of a holder |
| `analysis`, ingestion | 8 messages (two with one id, one without, one refused by the driver, one that raises, one broken, one old), 2 batches, 3 storages, 2 calls, 2 rounds of fetching, 2 endpoints, 2 retries; bulk inserts that fail, commits that lose their answer | `NothingLost`, `CountedIsStored`, `StoredOnce`, `CallReturns` |
| `analysis`, stages | 1 checkpoint, 2 tasks of either pipeline, crashes and resumes | `CompletedMeansBoth` |
| `analysis`, discovery | 4 URLs (one within another, one white, one rare), 2 keywords, 1 signature, 3 proposals and 1 rule of the LLM, 2 clusters, 2 runs | `DangerousIsDisarmed`, `ReportedIsStored`, `InsightHasNoRule` |
| `analysis`, shadow | 3 rules, 3 workers, room for 2 | `SelectionCovers` |
| `analysis`, SQL, tiers | every case of the sets in `MCAnalysis`: conditions, literals and ORs around every bound; hits around every bound | `AutoSafeAgrees`, `TierMonotone` |
| `reads`, faults | 2 processes, 2 texts, lists of up to 3 with a repetition, batches of 2, no time; every fault | `OwnVector` |
| `reads`, slow | 1 process, 2 calls, 1 text, TTL 2, 6 ticks = 3 TTLs; Redis and SQLite failures | `AgeBounded` |
| `reads`, results | 2 processes, 2 versions, TTL 1, 3 ticks | `ResultOfOwnVersion`, `ResultFresh` |
| `reads`, api | 3 rules, two with one text, pages of 2, a summary of 3, an export of 2, 2 changes during the request | `ReadsMissNothing` |
| `lock_work` | Redis, 2 tasks, no fault | **violated** `WorkExclusion` |
| `lock_leak` | PostgreSQL, 2 tasks of one process, no fault | **violated** `NoLeakedLock` |
| `promotion_races` | 1 rule, two mining calls | **violated** `LegalTransitions` |
| `promotion_endpoint` | monitor reached only through the endpoint | **violated** `DegradedRuleLeaves` |
| `mining_resume` | as in `background`, one task | **violated** `ResumeCountsOnce` |
| `shadow` | the pass of `analysis` by itself | **violated** `EvaluationRecorded` |
| `ingest_count` | 2 calls with one batch, no fault | **violated** `CountedIsInserted` |
| `model_decides` | two patterns of any weight with few or many matches, short and long texts, a model that is certain | **violated** `ModelCatches` |

Each passing run also checks the type invariants of its parts (`AnalysisTypeOK` and
`ReadsTypeOK` join them).

What some of the properties say, beyond their names, and what they leave out.

* `Exclusion` is about the block of one lock on *one* server.  With Redis and
  PostgreSQL both configured two tasks may be told that they have it, and on
  PostgreSQL a release may go to the wrong session (`NoLeakedLock`, violated).
* `FailuresBounded`: the breaker shields a database that stays down.  half_open lets
  every call through, and so do calls that began before it opened; between two
  successes, or two spells of the time-out without a failure, a process still runs
  into at most one failure less than the threshold and one for each call it serves at
  a time.  That needs the late answers to be counted right, not only the state.
* `AnswerKept` is about one process while it runs: another process, or the same one
  after a restart, has no stored answer.
* `BreakersRecover` is checked in the part without Redis only.
* `AdmittedBounded` gives each process that lost Redis one limit more, since that is
  what its own memory costs.  Redis keeps its data in this model.
* `ConfigConverges` excepts the edits that the thread cannot see: those between its
  reading of the content and of the time (a race the code has), and those with a time
  that is not newer.
* `NoPromotionOfDegraded` is checked for the balanced profile; the theorem is for
  every profile from a precision of 0.9 on.
* `DuplicatesBounded`: no table of the run is longer than what the duplicate check
  lists, so what happens beyond 100 patterns is not shown.
* `NothingLost` is about calls whose session survived; what a dead session drops is a
  hazard of its own, as is the rest of a file behind a broken entry.
* `CountedIsStored`: no call reports more messages than are in the table of its
  batch.  It does not say that the call itself inserted them, which the docstrings
  promise and `CountedIsInserted` refutes.
* `StoredOnce` holds with lost answers of commits too: the id keeps the retry from
  storing a message again.  A message *without* one is stored twice then, which the
  property admits for exactly the calls that lost an answer.
* `OwnVector` leaves out answers with more vectors than texts, which
  `v2_embedding_engine.py:346` accepts as well; it would fail for them.  `AgeBounded`
  allows three TTLs, one per tier, where `embedding_cache.py:55` speaks of one.
* `ResultFresh` bounds the age of an older value that Redis serves after it has
  returned; it does not keep it from being served.
* `ReadsMissNothing`: the client of the model stops at a page that came shorter than
  the limit *before* the filter, a length the API never returns; a client that stops at
  a short filtered page sees less.
* `SelectionCovers` is about passes that return; one whose shared session raises
  does not, and nothing is said of it.  With room for two and three workers no worker of
  the run has two rules; the theorem is for any number of both.
* `AutoSafeAgrees` compares three pieces of code that judge the same rule.  Its one
  exception is named in it: a text with no WHERE and something after the table (`FROM
  messages m`), of a rule whose risk the LLM calls low, is
  AUTO_SAFE and valid in both modes, though it is true of every message
  (`v2_sql_safety.py:61`, 415 and 434-441).
* `TierMonotone` asks for at most 5 % of the ham.  Above, the code does lower a tier for
  one more spam message.
* `ReportedIsStored` is exact: when the LLM stage raised, the report lacks what that
  stage had stored, and nothing else.
* `DangerousIsDisarmed` and `InsightHasNoRule` are about the rules of the pattern and
  LLM stages: semantic rules are never classified, and the fields of a proposal other
  than its level are compared as they come.

Why the bounds are enough.  A lock needs two contenders, and a third for a late
release that meets the next owner; the TTL exceeds the heartbeat by one so that
both orders of expiry and refresh occur; two tasks in one process are what
overwrites `lock.db`.  Promotion decides rule by rule, so two
rules suffice for an error on one to affect the other; the evaluations are at
the limits of the thresholds.  Four messages make two batches of chunks, with a
save in between and a stop before, between and after; MaxRuns allows a run, a
second one and resumes of both.  In ingestion every relation between two messages
(same id, no id, refused, unrelated) occurs in some batch or between batches, a lost
answer may come at the bulk insert and at any single one, and
two rounds let an endpoint fail and the next answer.  A two-stage
checkpoint is disturbed by one other task at a time, so two tasks on one row show
every overlap of an owner and a resume.  The longest life of a cache entry takes
three refills, which six ticks cover; a list of three with batches of two gives
an answer that can be short and one that follows it.  Three rules on pages of two
make a page boundary that a change can move a rule over.  A breaker at two
failures has a closed state with a failure in it, and two calls can answer in
either order.

In the `api` part the rules begin with different creation times, none is
deprecated, and `r2` alone may have a bad evaluation: with equal times the order
of a page is not defined, and the rest is symmetric.  The requests part of
`service` runs without Redis: in Redis a refused request also fills the window, so
a client that repeats its requests is never admitted again, and its process gets
no occasion to close a breaker.
Deadlock is checked in `lock_work`, `lock_leak`, `model_decides` and the two violated
promotion runs: the others may stop for good where a bound is reached (`MaxTime`,
`MaxRuns`, `Rounds`, `MaxEdits`, `MaxChanges`, `MaxDiscoveries`) or every call is done.

### Fairness

`FairSpec` of `DistributedLock` assumes that time passes and that a due
heartbeat runs; `PromotionFairSpec` of `RulePromotion` that a started call goes on and that the
calls are made again (a cron job or an operator).  `Analysis` assumes that an
ingestion call takes its next step (client timeouts end a fetch that hangs).
`MCService` assumes the same of the parts it takes from there, and that time passes,
that the database answers or its driver
times out, that the configuration thread runs (a loop with `sleep`), and, for
`BreakersRecover`, that each process keeps getting requests that pass its limits:
strong fairness of `Classify`, an assumption about clients without which a breaker
has no occasion to close.  Nothing is assumed of failures, of Redis or of other
processes.

### What the violated runs mean

* `WorkExclusion`: the `async with` of the three callers contains only the early
  return, so the lock is free again when the work starts.
* `NoLeakedLock`: two coroutines of one process share `lock.db`.  The second sets it to
  its own session, so the first unlocks there, where nothing is locked, and its own
  advisory lock stays with a connection that goes back to the pool
  (`distributed_lock.py:293`).  Nobody else gets the lock until that connection ends.
* `LegalTransitions`: two mining runs that listed the same candidate, with a
  promotion in between, move an active rule back to shadow.
* `DegradedRuleLeaves` through `POST /rules/promote`: promotion raises before
  the monitor is called.
* `ResumeCountsOnce`: messages come newest first but the saved position is
  compared upwards by id, so a resume recounts and skips.
* `CountedIsInserted`: two calls check the same batch for duplicates before either has
  inserted.  The bulk insert of the later one skips the rows of the other
  and returns `len(mappings)` (`repositories.py:298`, 305): both report all of them, where
  `v2_ingestion.py:395` and `repositories.py:233` promise the number inserted without
  duplicates.
* `ModelCatches`: "Slightly increase ML weight to catch patterns rules might miss", says
  `pipeline.py:126`.  A text in which the patterns find nothing has the score 0, and
  line 105 takes a score of at most 0.2 for confident and leaves the model out: under
  the default threshold no answer of the model gives such a text the label spam.
* `EvaluationRecorded`: the SQL is put in capitals and then searched for
  `FROM messages` (`v2_shadow_evaluation.py:148`), so `evaluate_rule` returns None
  for every rule; the query and the metrics after it are never reached, and are
  not modelled.

## 4. What is proved

TLAPS, for every value of the constants allowed by the modules' assumptions.  Each
invariant that a passing run checks, and each action property, is stated by a
theorem.

| module | theorem | states |
|---|---|---|
| `DistributedLockProofs` | `TypeCorrect`, `LeaseLossIsExpiry` | `TypeOK`; `LeaseEndsByTTL` with every fault and backend |
| | `RedisExclusion`, `RedisKeepsLease`, `RedisImplementsLock` | `Exclusion`, `HolderKeepsLease`, `ImplementsLock` for Redis with heartbeats that keep up |
| | `PgExclusion` | `Exclusion` on PostgreSQL alone, for any number of coroutines per process and every fault but a commit inside the block |
| `RulePromotionProofs` | `PromotionTypeCorrect`, `NoUnevaluatedActive`, `PromotionsAgreeWithMonitor` | `PromotionTypeOK`, `ActiveWasEvaluated`, `NoPromotionOfDegraded` for a profile with a minimum precision of at least 0.9 |
| `PatternMiningProofs` | `MiningTypeCorrect`, `MiningCountsOnceAlways`, `SavedIsPrefixAlways` | `MiningTypeOK`, `MiningCountsOnce`, `SavedIsPrefix` |
| | `DuplicatesStayBounded` | `DuplicatesBounded` while the duplicate check sees the whole table |
| `IngestionProofs` | `IngestionTypeCorrect`, `NothingIsLost` | the types; `NothingLost` with every fault |
| | `MessagesAreStoredOnce`, `CountedMessagesAreStored` | `StoredOnce`, `CountedIsStored`, with every fault |
| `AnalysisProofs` | `StageTypeCorrect`, `CompletedHasAllStages` | the types; `CompletedMeansBoth` for any calls and rows |
| | `DiscoveryTypeCorrect`, `DangerousRulesCannotRun`, `ReportsAreStored`, `InsightsGetNoRule` | the types; `DangerousIsDisarmed`, `ReportedIsStored`, `InsightHasNoRule` |
| | `ShadowTypeCorrect`, `PassesCoverTheirChoice` | the types; `SelectionCovers` for any rules, bound and workers |
| | `SafeClassesAgree`, `TiersNeverDrop` | `AutoSafeAgrees`, with its exception, and `TierMonotone`, for any sets of cases |
| | `AnalysisTypeCorrect` | `AnalysisTypeOK`, of all parts together |
| `ReadsProofs` | `CacheTypeCorrect`, `VectorsAreOwn`, `AgeAlwaysBounded` | the types; `OwnVector`, `AgeBounded` |
| | `ResultsAreOfOwnVersion`, `ResultsAreFresh` | `ResultOfOwnVersion`, `ResultFresh` |
| | `ReadsShowWhatStays`, `ReadsTypeCorrect` | `ReadsMissNothing`; `ReadsTypeOK`, of all parts together |
| `RequestPathProofs` | `FleetStaysBounded`, `RequestsStayBounded` | `AdmittedBounded` of the limiter by itself, and behind the other guards of a request |
| | `RequestTypeCorrect`, `BreakersBoundFailures`, `AnswersAreKept` | `RequestTypeOK`, `FailuresBounded`, `AnswerKept` |

The arguments.

*Lock.* A token is drawn fresh, so the token Redis stores names at most one
task; a task has a token only while its refresh is due before the TTL ends.
The inductive invariant ties `token`, `lease` and `beat` together: without the
distance between `beat` and the remaining TTL, a lease could lapse under its
holder.  The theorems on Redis assume the faults that break this distance away
(a refresh that fails or comes late) and the PostgreSQL backend, to which a
refused task falls through.  On PostgreSQL alone (`PgAlone`) nothing is assumed of the
processes: `lock.db` may name any session by the time of a release.  `SessionInv` says
that a task asks on its own session and that no two have one connection; `HoldInv`
that a task which has the lock is on a connection that holds it, and that no second
connection does.  A release on another task's session is then harmless to exclusion,
since that task cannot have the lock: it leaves the lock locked too long, never too
short.  Too long is the leak that `lock_leak` shows.  The one hypothesis is that the block
does not commit the lock's session, and the three blocks of the code contain only
an early return.  With both servers there is no exclusion to prove:
a task on Redis and one on PostgreSQL exclude each other nowhere.

*Promotion.* A rule a task is to promote was read with an evaluation, and
evaluations are never deleted; the two sets of thresholds are compared for an
arbitrary profile.  With the aggressive one, which promotes from 0.85 on, a rule that
has fallen there from more than 0.944 is promoted and then deprecated as drifted.

*Mining.* `MinerInv` says for each call that the signals count exactly what was
listed and is no longer in the rest, that the rest is the older part of the
list, and that a checkpoint is owned by at most one first run; without the
ownership part, a call could save over the position of another.  The lemmas are
about cutting a set ordered by timestamp into its newest elements.  `CopiesInv`
counts for each feature its patterns and the calls that are about to create one:
together they are at most one for each task, because a call joins the second group
only when the check found no pattern.  The hypothesis `[]AllListed` is that the
table fits into what the check lists; the code lists a bounded number, and a table
beyond it makes duplicates (a hazard in `PROJECT.json`).

*Ingestion.* `Right` says of each call: its local variables fit the step it is at
(`Shaped`, `Staged`); every message it owes is stored, or in its batch, or in what
a loop has left, or refused by the driver (`Covered`); it has inserted no message
twice, except one without an id after a lost answer, and what the loop still has of
what it inserted has an id that is known by now (`Single`); it has counted no more than
what is stored and no longer in the loop (`Counted`).  `RightGrows` is the lemma that makes
calls independent: what another call stores only adds to the table.  A bulk insert
that commits and loses its answer is inserted again one by one; the argument for
`StoredOnce` is that the loop's own look-up finds every message with an id.  No
theorem excludes a fault.

*Two-stage pipeline.* `StageInv` keeps for each row, and for each copy of it that a
session loaded, what stands behind it (`Honest`): only the plain pipeline saves
signals, and only in rows it made, and a row at stage two has had stage one.  That
holds of stale copies too, so a call that resumes or finishes with one still knows
what ran: whoever writes COMPLETED has the stages behind it (`CallGood`), if not by
its own call then by an earlier one of the same row.

*Discovery.* `DiscoveryInv` follows one item at a time: what a filter has let
through (`ItemGood`), what is counted against what is stored, the stage of
the LLM kept apart (`Accounted`), and for
each rule that its text, when it was dangerous at its classification, is a comment.

*Shadow evaluation.* The places of the sort are proved to be a permutation of the
list, so that the cut keeps the best, and the strides of the workers a cover of the
chosen; then the chosen rules are those with a result and those still in a queue,
at each step.

*Cases.* `SafeClassesAgree` and `TiersNeverDrop` have no behaviour
to follow; they compare the definitions by linear arithmetic and case distinctions,
for all numbers instead of those around the bounds.

*Embedding cache.* `CacheInv` has three parts.  Each tier adds at most one TTL:
a SQLite row lives until one TTL after the vector was computed, Redis two, a map
three, because refills only go from slower tiers to faster ones.  The vectors
that were not found stand in `missing` at the place that the merge will count
(`Placed`).  And `got` never has more vectors than were asked for, so having as
many means having the right ones (`InOrder`): this is why one comparison of
lengths in `set_batch` protects the cache.  `OwnVector` would fail if an answer
could also be too long.

*Result cache.* An entry was computed by the version of its key, and a call that
waits for the LLM keeps the key under which it asked (`ResultInv`): setting another
version in between changes neither.

*API.* While a client walks or analyses, each rule it is owed is among those shown,
among those in hand, or still ahead of it (`ApiInv`).  For pages newest first this
is about positions: a new rule pushes the others back, over the boundary to the
next page, never forward, and a rule leaves a filtered list only by moving on,
which is not owed.  `Listed` is a sort, so lemmas say what precedes what in it
and that two rules that tie may be missed.  For an analysis, a rule that moves
forward does so along the order in which the statuses are read.

*Limiter.* Requests that were admitted are not told apart by where they were
admitted, so `LimiterInv` says that there *is* a division: for each client a share
of the window in Redis, at most what Redis holds (which also counts what it
refused), and the rest in the memories of processes that fell back and that have
not forgotten yet.  Memories hold at most the limit and nothing from before their
last use.  The bound is then a sum over processes; `FiniteSums` has what that needs.

*Request path.* A breaker is closed exactly while its count is below the threshold,
in whatever order the answers of overlapping calls arrive, and a closed one has had no
more failures in a row than it counts (`Honest`); an open one has had few enough to
leave room for a failure of each call that still waits (`Covered`), since it admits no
further one before a spell of the time-out or a success ends the burst.  `AnswersAreKept` is an
action property: a key with an answer keeps it in every step that does not age it
to its end.  `RequestsStayBounded` maps each step of a request to one of the
limiter or none.

*Induction.* The induction theorems of the library speak of an arbitrary predicate,
which the installed provers cannot instantiate.  `FiniteSums` replaces them by
statements about sets of numbers and of finite sets, which follow from the least
element; so the sums and the recursive functions of `Ingestion` could be reasoned
about.

*Compositions.* `PartsInv` and `ReadsInv` are the conjunctions of the invariants of
the parts: a part that does not move keeps its own.

Assumptions: the named `ASSUME` of each module (`LockAssumption`,
`PromotionAssumption`, `MiningAssumption`, `IngestionAssumption`,
`AnalysisAssumption` with those of its parts, `CacheAssumption`,
`ReadsAssumption`, `LimiterAssumption`, `RequestAssumption`), evaluated in the runs,
and the hypotheses above that a theorem names.  They are types of constants,
finiteness of what the code counts or sums, values for "none" that are no value,
and in `IngestionAssumption` that a source delivers no entry twice.
`ServiceAssumption` is assumed in `MCService`.

Only model-checked: liveness (`OrphanLeaseEnds`, `DegradedRuleLeaves`,
`CallReturns`, `BreakersRecover`, `ConfigConverges`), which is out of the prover's
reach; and so `ServiceProcess` as a whole, whose one property is about
convergence.  What the violated runs show is a counterexample, not a theorem.

## 5. What is not modelled

Components.

* Message queue, audit log, cost guard, secret rotation, chaos testing,
  observability, redaction, adapters, legacy code and scripts, for the reasons in
  `PROJECT.json`.
* Texts, regular expressions, prompts, embeddings and similarities, the layout of
  reports: data.
* In mining: the days window, equal timestamps and the cap of 20 features per
  chunk.  In the embedding cache: `clear()`, which nothing calls, the size of the
  map, and which model computed a vector.  In the result cache: `get_stats` and the
  clearing of everything.  In the API: statistics, explanations, health.
* Routes added to `app.main` after `include_router` was called: they are not served.
* The LLM breaker of `graceful_degradation.py` never opens, because the refiner
  catches every exception before it; the retry and timeout decorators have no
  user; `db_degraded` is written and read by nothing that decides.

Behaviour of the code that is in the models or next to them and that no property
covers, because nothing in the repository promises otherwise, or because it ends
a call at once.

* Checkpoints: metadata given at creation is set under a name that is no column
  (`repositories.py:545`); the totals of a resumed two-stage run come from the old
  metadata (`v2_two_stage_pipeline.py:500`); a stage that the lock refuses counts as
  complete with nothing found; a resume at another stage than 1 or 2 meets unbound
  names; a plain resume without saved signals raises `NameError`
  (`v2_pattern_mining.py:590`); `list_checkpoints` with a status filter looks only at
  RUNNING rows (`cli.py:364`).
* Mining: automatic evaluation takes the oldest candidates (line 318); a rule that
  is not created leaves its pattern without one; a semantic tenth of fewer than ten
  messages is 0, which means no limit (`v2_semantic_mining.py:99`); semantic rules
  are never classified for safety; mined literals such as "call" or "update" are
  refused by the project's own validator.
* Promotion: `v2_promotion.py:171` and `:180` raise; `v2_shadow_evaluation.py:221` reads
  the previous precision before it creates the next, but is not reached.
* API and commands: `GET /patterns` raises for any page that is not empty
  (`api/main.py:294`); `POST /analyze` cuts its list at 100 (706); the evaluate endpoint
  counts 0; the export command limits before it filters (`cli.py:480`); rules with
  one `created_at` may be on two pages or on none; the two-stage harness and the use
  of `hits_ham` in `v2_rule_safety_classifier.py:166` raise; `ingest_from_csv` has
  no caller in `app/`.

Lock start-up: `app.main` initialises the lock within three seconds of the
database's start-up (`ServiceProcess`); the other entry points do not initialise it
at all, and then nothing is locked.

## 6. Plan

1. `ServiceProcess`: the types, and the part of `ConfigConverges` that is safety:
   the values in use are those of some edit of the file, never a mixture.
2. The lock on PostgreSQL: a leak needs two coroutines in a process, a failed call, a
   closed lock or a commit in the block; that it needs one of these is not proved here.
3. Shorter proofs: the steps of `RuleDiscovery` and `PatasApi` repeat an argument per
   status that one lemma could make.
4. A model of the embedding cache with the name of the model in an entry.
