----------------------------- MODULE RateLimiter -----------------------------
(***************************************************************************)
(* The request limits of app/security.py: the sliding window of            *)
(* check_rate_limit, kept in Redis for all processes and in a process's    *)
(* memory when Redis is not configured or a call to it fails, and the      *)
(* burst count of check_waf.                                               *)
(*                                                                         *)
(* A window is a function from the age of an entry, in ticks, to the       *)
(* number of entries of that age; entries as old as the window are gone,   *)
(* as every check drops them before it counts.  Clocks of processes agree. *)
(***************************************************************************)
EXTENDS Integers, FiniteSets, Functions

CONSTANTS
    Procs,      \* processes that serve requests
    Clients,    \* API keys
    RateLimit,  \* settings.default_rate_limit
    Window,     \* ticks of the limiter's second
    WafLimit,   \* bursts that check_waf lets pass
    UseRedis,   \* settings.redis_url is set
    RedisFails  \* a call to Redis may fail

ASSUME LimiterAssumption ==
    /\ IsFiniteSet(Procs)
    /\ RateLimit \in Nat \ {0} /\ Window \in Nat \ {0} /\ WafLimit \in Nat
    /\ UseRedis \in BOOLEAN /\ RedisFails \in BOOLEAN

VARIABLES
    zset,    \* the sorted set ratelimit:<key> of each client
    mem,     \* rate_limit_store of each process
    bursts,  \* waf_burst_store of each process: suspicious texts of the last minute
    passed,  \* history: the requests let through, like a window
    fell     \* history: ticks since a process last used its memory, up to Window

limiterVars == <<zset, mem, bursts, passed, fell>>

Ages == 0..(Window - 1)
NoEntries == [a \in Ages |-> 0]

\* Counts stop where no decision tells them apart.
UpTo(n, limit) == IF n < limit THEN n ELSE limit

LimiterTypeOK ==
    /\ zset \in [Clients -> [Ages -> 0..RateLimit]]
    /\ mem \in [Procs -> [Clients -> [Ages -> 0..RateLimit]]]
    /\ bursts \in [Procs -> [Clients -> 0..(WafLimit + 1)]]
    /\ passed \in [Clients -> [Ages -> Nat]]
    /\ fell \in [Procs -> 0..Window]

LimiterInit ==
    /\ zset = [c \in Clients |-> NoEntries]
    /\ mem = [p \in Procs |-> [c \in Clients |-> NoEntries]]
    /\ bursts = [p \in Procs |-> [c \in Clients |-> 0]]
    /\ passed = [c \in Clients |-> NoEntries]
    /\ fell = [p \in Procs |-> Window]

Total(w) == FoldFunction(+, 0, w)

-----------------------------------------------------------------------------
Recorded(w) == [w EXCEPT ![0] = UpTo(@ + 1, RateLimit)]

\* check_rate_limit_redis: one pipeline drops, counts and adds; the request is
\* added also when it is refused.
BugCountsNothing(c) == TRUE
RedisAllows(c) == Total(zset[c]) < RateLimit

CheckRedis(p, c, ok) ==
    /\ UseRedis
    /\ ok = RedisAllows(c)
    /\ zset' = [zset EXCEPT ![c] = Recorded(@)]
    /\ UNCHANGED <<mem, fell>>

\* check_rate_limit_memory, also when the call to Redis failed, perhaps after
\* the server added the request; here a refused request is not recorded.
BugOffByOne(p, c) == Total(mem[p][c]) <= RateLimit
MemoryAllows(p, c) == Total(mem[p][c]) < RateLimit

CheckMemory(p, c, ok) ==
    /\ UseRedis => RedisFails
    /\ ok = MemoryAllows(p, c)
    /\ mem' = IF ok THEN [mem EXCEPT ![p][c] = Recorded(@)] ELSE mem
    /\ fell' = [fell EXCEPT ![p] = 0]
    /\ \/ UNCHANGED zset
       \/ UseRedis /\ zset' = [zset EXCEPT ![c] = Recorded(@)]

\* check_rate_limit
CheckRateLimit(p, c, ok) ==
    /\ CheckRedis(p, c, ok) \/ CheckMemory(p, c, ok)
    /\ passed' = IF ok THEN [passed EXCEPT ![c][0] = @ + 1] ELSE passed

\* check_waf: only a text with many links or numbers counts, and only such a
\* text is refused.
CheckWaf(p, c, suspicious, ok) ==
    LET n == UpTo(bursts[p][c] + 1, WafLimit + 1) IN
    /\ ok = (suspicious => n <= WafLimit)
    /\ bursts' = IF suspicious THEN [bursts EXCEPT ![p][c] = n] ELSE bursts

Older(w) == [a \in Ages |-> IF a = 0 THEN 0 ELSE w[a - 1]]

\* A tick: entries age, and of the bursts (whose minute has many ticks) any
\* number of the oldest may be over.
LimiterTick ==
    /\ zset' = [c \in Clients |-> Older(zset[c])]
    /\ mem' = [p \in Procs |-> [c \in Clients |-> Older(mem[p][c])]]
    /\ passed' = [c \in Clients |-> Older(passed[c])]
    /\ fell' = [p \in Procs |-> UpTo(fell[p] + 1, Window)]
    /\ bursts' \in {b \in [Procs -> [Clients -> 0..(WafLimit + 1)]] :
                        \A p \in Procs, c \in Clients : b[p][c] <= bursts[p][c]}

\* The limiter on its own, for requests of any kind.
Admit(p, c) == CheckRateLimit(p, c, TRUE) /\ UNCHANGED bursts
Refuse(p, c) == CheckRateLimit(p, c, FALSE) /\ UNCHANGED bursts

LimiterNext ==
    \/ \E p \in Procs, c \in Clients : Admit(p, c) \/ Refuse(p, c)
    \/ LimiterTick

LimiterSpec == LimiterInit /\ [][LimiterNext]_limiterVars

-----------------------------------------------------------------------------
\* The processes that fell back on their own memory within the window.
FellBack == {p \in Procs : fell[p] < Window}

Windows == Cardinality(FellBack) + IF UseRedis THEN 1 ELSE 0

\* In every window a client gets at most RateLimit requests through all the
\* processes together while Redis answers, and at most RateLimit more for each
\* process that fell back on its own memory.
AdmittedBounded ==
    \A c \in Clients : Total(passed[c]) <= RateLimit * Windows
=============================================================================
