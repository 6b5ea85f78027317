---------------------------- MODULE EmbeddingCache ----------------------------
(***************************************************************************)
(* Embeddings and their cache: generate_embeddings of the HTTP and OpenAI  *)
(* engines in app/v2_embedding_engine.py over the three tiers of           *)
(* app/embedding_cache.py: Redis, a SQLite file and a map in each process. *)
(*                                                                         *)
(* A call is a coroutine.  It looks up and stores its texts without an     *)
(* await, so other calls of its process wait; those of other processes     *)
(* step between two texts.  The lookup, and the store, of one text takes   *)
(* no time.  A vector is the text it was computed from; numbers, and the   *)
(* model that computed them, are left out, as is the size limit of the map *)
(* (10 000 vectors).                                                       *)
(***************************************************************************)
EXTENDS Integers, FiniteSets, Sequences

CONSTANTS
    Procs,      \* processes: one EmbeddingCache each
    Calls,      \* calls of generate_embeddings
    ProcOf,     \* the process a call runs in
    Texts,
    Requests,   \* the lists of texts that may be asked for
    None,       \* no vector
    TTL,
    BatchSize,
    Faults,     \* subset of {"redis", "sqlite", "service", "short", "restart", "evict"}
    MaxTime     \* bound: the clock stops here

ASSUME CacheAssumption ==
    /\ ProcOf \in [Calls -> Procs]
    /\ Requests \subseteq Seq(Texts) \ {<<>>}
    /\ None \notin [of: Texts, born: Nat, seen: Nat]
    /\ TTL \in Nat \ {0} /\ BatchSize \in Nat \ {0} /\ MaxTime \in Nat

VARIABLES
    clock,
    client,   \* the process has a Redis client: its first ping succeeded
    redis,
    sqlite,
    local,    \* local_cache of each process
    call

vars == <<clock, client, redis, sqlite, local, call>>

Entries == [of: Texts, born: Nat, until: Nat] \* until when a tier serves it

\* A vector in hand, and when it came to hand.
Vectors == [of: Texts, born: Nat, seen: Nat]

CallAt(pc, texts) ==
    [pc |-> pc, texts |-> texts, found |-> <<>>, missing |-> <<>>,
     asked |-> 0, got |-> <<>>, stored |-> 0]

Idle == CallAt("idle", <<>>)

CallRecords ==
    [pc: {"idle", "lookup", "ask", "store", "done", "failed"},
     texts: Seq(Texts), found: Seq(Vectors \cup {None}), missing: Seq(Texts),
     asked: Nat, got: Seq(Texts), stored: Nat]

TypeOK ==
    /\ clock \in Nat
    /\ client \in [Procs -> BOOLEAN]
    /\ redis \in [Texts -> Entries \cup {None}]
    /\ sqlite \in [Texts -> Entries \cup {None}]
    /\ local \in [Procs -> [Texts -> Entries \cup {None}]]
    /\ call \in [Calls -> CallRecords]

Empty == [x \in Texts |-> None]

Init ==
    /\ clock = 0
    /\ client \in [Procs -> BOOLEAN]
    /\ redis = Empty
    /\ sqlite = Empty
    /\ local = [p \in Procs |-> Empty]
    /\ call = [c \in Calls |-> Idle]

At(c, pc) == call[c].pc = pc
Busy(c) == call[c].pc \in {"lookup", "store"}
Turn(c) == \A d \in Calls \ {c} : ProcOf[d] = ProcOf[c] => ~Busy(d)

May(fault) == fault \in Faults

-----------------------------------------------------------------------------
(* The tiers *)

\* A SQLite row stays until somebody finds it expired.
Valid(row) == row # None /\ clock <= row.until

\* Redis and the TTLCache drop an entry when its time is up.
Dropped(tier, now) ==
    [x \in Texts |-> IF tier[x] # None /\ tier[x].until <= now THEN None ELSE tier[x]]

\* A tier filled from another one: a full TTL from now.
Refill(e) == [e EXCEPT !.until = clock + TTL]
Entry(v) == [of |-> v, born |-> clock, until |-> clock + TTL]
Seen(e) == [of |-> e.of, born |-> e.born, seen |-> clock]

\* A tier after an attempt to write the entry of x.
Written(tier, x, e, fault) ==
    {[tier EXCEPT ![x] = e]} \cup (IF May(fault) THEN {tier} ELSE {})

-----------------------------------------------------------------------------
(* generate_embeddings, first part: EmbeddingCache.get_batch *)

Begin(c, texts) ==
    /\ call[c].pc \in {"idle", "done", "failed"} /\ Turn(c)
    /\ call' = [call EXCEPT ![c] = CallAt("lookup", texts)]
    /\ UNCHANGED <<clock, client, redis, sqlite, local>>

Proc(c) == ProcOf[c]
Wanted(c) == call[c].texts[Len(call[c].found) + 1]

\* One more text is found, or (v = None) has to be computed.
Looked(k, v) ==
    LET found == Append(k.found, v)
        missing == IF v = None THEN Append(k.missing, k.texts[Len(k.found) + 1])
                               ELSE k.missing
    IN  [k EXCEPT !.found = found, !.missing = missing,
                  !.pc = IF Len(found) < Len(k.texts) THEN "lookup"
                         ELSE IF missing = <<>> THEN "done" ELSE "ask"]

Note(c, v) == call' = [call EXCEPT ![c] = Looked(call[c], v)]

HitRedis(c) ==
    /\ At(c, "lookup")
    /\ LET x == Wanted(c) IN
        /\ client[Proc(c)] /\ redis[x] # None
        /\ local' = [local EXCEPT ![Proc(c)][x] = Refill(redis[x])]
        /\ Note(c, Seen(redis[x]))
    /\ UNCHANGED <<clock, client, redis, sqlite>>

\* The lookup goes on to SQLite.
PastRedis(c) ==
    /\ At(c, "lookup")
    /\ ~client[Proc(c)] \/ redis[Wanted(c)] = None \/ May("redis")

HitSqlite(c) ==
    /\ PastRedis(c)
    /\ LET x == Wanted(c) IN
        /\ Valid(sqlite[x])
        /\ local' = [local EXCEPT ![Proc(c)][x] = Refill(sqlite[x])]
        /\ redis' \in IF client[Proc(c)] THEN Written(redis, x, Refill(sqlite[x]), "redis")
                                         ELSE {redis}
        /\ Note(c, Seen(sqlite[x]))
    /\ UNCHANGED <<clock, client, sqlite>>

\* An expired row is deleted and nothing returned, whatever the map holds.
ExpiredSqlite(c) ==
    /\ PastRedis(c)
    /\ LET x == Wanted(c) IN
        /\ sqlite[x] # None /\ ~Valid(sqlite[x])
        /\ sqlite' \in Written(sqlite, x, None, "sqlite")
        /\ Note(c, None)
    /\ UNCHANGED <<clock, client, redis, local>>

BugLookLocal(c) ==
    /\ PastRedis(c)
    /\ LET x == Wanted(c)
           e == local[Proc(c)][x] IN
        /\ sqlite[x] = None \/ May("sqlite")
        /\ Note(c, IF e = None THEN None ELSE Seen(e))
        /\ local' = IF e = None THEN local ELSE [local EXCEPT ![Proc(c)][x] = Refill(e)]
    /\ UNCHANGED <<clock, client, redis, sqlite>>

\* Without a row, or when SQLite fails, it is left to the map of the process.
LookLocal(c) ==
    /\ PastRedis(c)
    /\ LET x == Wanted(c)
           e == local[Proc(c)][x] IN
        /\ sqlite[x] = None \/ May("sqlite")
        /\ Note(c, IF e = None THEN None ELSE Seen(e))
    /\ UNCHANGED <<clock, client, redis, sqlite, local>>

-----------------------------------------------------------------------------
(* Second part: the batches, one request each *)

Last(k) == IF k.asked + BatchSize < Len(k.missing) THEN k.asked + BatchSize ELSE Len(k.missing)
Batch(k) == SubSeq(k.missing, k.asked + 1, Last(k))

Answered(c, vectors) ==
    LET k == call[c] IN
    /\ At(c, "ask") /\ Turn(c)
    /\ call' = [call EXCEPT ![c] =
            [k EXCEPT !.got = @ \o vectors, !.asked = Last(k),
                      !.pc = IF Last(k) < Len(k.missing) THEN "ask" ELSE "store"]]
    /\ UNCHANGED <<clock, client, redis, sqlite, local>>

Answer(c) == Answered(c, Batch(call[c]))

Without(s, i) == SubSeq(s, 1, i - 1) \o SubSeq(s, i + 1, Len(s))

\* An answer with one vector too few is logged and used; an empty one is a failure.
ShortAnswer(c) ==
    /\ May("short")
    /\ LET batch == Batch(call[c]) IN
        \E i \in DOMAIN batch : Len(batch) > 1 /\ Answered(c, Without(batch, i))

\* The call returns an empty list, and what other batches brought is dropped.
NoAnswer(c) ==
    /\ May("service")
    /\ At(c, "ask") /\ Turn(c)
    /\ call' = [call EXCEPT ![c] = CallAt("failed", <<>>)]
    /\ UNCHANGED <<clock, client, redis, sqlite, local>>

-----------------------------------------------------------------------------
(* Third part: set_batch and the merge *)

BugComplete(k) == TRUE
Complete(k) == Len(k.got) = Len(k.missing)

\* zip stops with the shorter list.
Pairs(k) == IF Len(k.got) < Len(k.missing) THEN Len(k.got) ELSE Len(k.missing)

Store(c) ==
    LET k == call[c]
        x == k.missing[k.stored + 1]
        e == Entry(k.got[k.stored + 1]) IN
    /\ At(c, "store") /\ Complete(k) /\ k.stored < Pairs(k)
    /\ local' = [local EXCEPT ![Proc(c)][x] = e]
    /\ redis' \in IF client[Proc(c)] THEN Written(redis, x, e, "redis") ELSE {redis}
    /\ sqlite' \in Written(sqlite, x, e, "sqlite")
    /\ call' = [call EXCEPT ![c].stored = @ + 1]
    /\ UNCHANGED <<clock, client>>

\* How many of the first i texts were not found: where the vector of the i-th is.
Place(found, i) == Cardinality({j \in 1..i : found[j] = None})

BugMerged(k) ==
    [i \in 1..Len(k.found) |->
        IF k.found[i] = None THEN k.got[Place(k.found, i)] ELSE k.found[i]]

Merged(k) ==
    [i \in 1..Len(k.found) |->
        IF k.found[i] = None THEN Seen(Entry(k.got[Place(k.found, i)])) ELSE k.found[i]]

\* Vectors that do not suffice raise an IndexError.
Merge(c) ==
    LET k == call[c] IN
    /\ At(c, "store") /\ (Complete(k) => k.stored = Pairs(k))
    /\ call' = [call EXCEPT ![c] =
            IF Len(k.got) < Len(k.missing) THEN CallAt("failed", <<>>)
            ELSE [k EXCEPT !.pc = "done", !.found = Merged(k)]]
    /\ UNCHANGED <<clock, client, redis, sqlite, local>>

-----------------------------------------------------------------------------
(* The surroundings *)

Tick ==
    /\ clock < MaxTime
    /\ \A c \in Calls : ~Busy(c)
    /\ clock' = clock + 1
    /\ redis' = Dropped(redis, clock + 1)
    /\ local' = [p \in Procs |-> Dropped(local[p], clock + 1)]
    /\ UNCHANGED <<client, sqlite, call>>

\* A process ends, with its calls and its map, and another takes its place.
Restart(p) ==
    /\ May("restart")
    /\ client' \in {[client EXCEPT ![p] = up] : up \in BOOLEAN}
    /\ local' = [local EXCEPT ![p] = Empty]
    /\ call' = [c \in Calls |-> IF ProcOf[c] = p THEN Idle ELSE call[c]]
    /\ UNCHANGED <<clock, redis, sqlite>>

\* Redis is short of memory or restarts.
Evict(x) ==
    /\ May("evict")
    /\ redis' = [redis EXCEPT ![x] = None]
    /\ UNCHANGED <<clock, client, sqlite, local, call>>

Step(c) ==
    \/ \E texts \in Requests : Begin(c, texts)
    \/ HitRedis(c) \/ HitSqlite(c) \/ ExpiredSqlite(c) \/ LookLocal(c)
    \/ Answer(c) \/ ShortAnswer(c) \/ NoAnswer(c)
    \/ Store(c) \/ Merge(c)

Next ==
    \/ \E c \in Calls : Step(c)
    \/ \E p \in Procs : Restart(p)
    \/ \E x \in Texts : Evict(x)
    \/ Tick

Spec == Init /\ [][Next]_vars

-----------------------------------------------------------------------------
(* What the cache promises *)

Tiers == {redis, sqlite} \cup {local[p] : p \in Procs}

\* No tier ever holds the vector of another text, and a call that returns has
\* the vector of each text at its place, also when some answers were short.
OwnVector ==
    /\ \A tier \in Tiers : \A x \in Texts : tier[x] # None => tier[x].of = x
    /\ \A c \in Calls : At(c, "done") =>
        /\ Len(call[c].found) = Len(call[c].texts)
        /\ \A i \in DOMAIN call[c].texts :
            call[c].found[i] # None /\ call[c].found[i].of = call[c].texts[i]

\* A vector served from any tier was computed less than three TTLs ago: a hit
\* refills the faster tiers with a full TTL, but only from a slower one.
AgeBounded ==
    \A c \in Calls : \A i \in DOMAIN call[c].found :
        LET v == call[c].found[i] IN v # None => v.seen - v.born < 3 * TTL
=============================================================================
