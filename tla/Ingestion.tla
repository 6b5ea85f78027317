------------------------------ MODULE Ingestion ------------------------------
(***************************************************************************)
(* Storing batches of messages: TASLogIngester of app/v2_ingestion.py with *)
(* MessageRepository of app/repositories.py and the ingest endpoint of     *)
(* app/api/main.py.                                                        *)
(*                                                                         *)
(* A call is one request or command with a session of its own, and calls   *)
(* overlap.  A step lies between two awaits on the network or on the       *)
(* database.  A message is its contents: two messages may carry the same   *)
(* external id, and one without an id (or with one that is 0 or empty) may *)
(* be delivered again.  Of the parsing of an entry is kept whether it      *)
(* raises and whether the entry is older than asked for.                   *)
(***************************************************************************)
EXTENDS Integers, FiniteSets, FiniteSetsExt, Sequences, SequencesExt, Functions, OrderedFilter

CONSTANTS
    Items,        \* message contents
    NoId,         \* no external_id
    Ext,          \* the external_id of a message, or NoId
    Bad,          \* contents that the database driver refuses
    Broken,       \* entries whose parsing raises: no object, a short row
    Junk,         \* lines that are no JSON
    Old,          \* entries from before since_timestamp
    Batches,      \* what may be delivered: sequences without repetition
    Storages,     \* what tas_storage_path may hold: sets of files
    Calls,
    MaxRetries,   \* max_retries of ingest_from_tas_api
    Endpoints,    \* how many endpoints a fetch tries in turn
    Rounds,       \* bound: calls ever started
    Faults        \* subset of {"bulk_error", "lost_ack"}

ASSUME IngestionAssumption ==
    /\ IsFiniteSet(Items) /\ DOMAIN Ext = Items
    /\ Bad \cup Broken \cup Junk \cup Old \subseteq Items
    /\ \A b \in Batches : b \in Seq(Items) /\ IsInjective(b)
    /\ \A files \in Storages : IsFiniteSet(files) /\ \A f \in files :
          /\ f.kind \in {"array", "lines", "csv", "other"}
          /\ f.entries \in Seq(Items) /\ IsInjective(f.entries)
          /\ f.kind # "lines" => Range(f.entries) \cap Junk = {}
          /\ \A g \in files \ {f} : Range(f.entries) \cap Range(g.entries) = {}
    /\ MaxRetries \in Nat /\ Endpoints \in Nat \ {0} /\ Rounds \in Nat
    /\ Faults \subseteq {"bulk_error", "lost_ack"}

VARIABLES
    upsert,   \* the dialect has an INSERT that skips conflicts
    rows,     \* the messages table: how many rows have these contents
    call,     \* the calls under way, and the last result of each
    round     \* calls started so far

vars == <<upsert, rows, call, round>>

\* `todo` is what a loop of single inserts has left, `loop` which loop it is;
\* `dead` says that the session awaits a rollback.  `owed`, `added` and `lost` are
\* history variables: the messages that the source holds, the rows that the call
\* inserted, and whether it never heard of the commit of its bulk insert.
Idle == [pc |-> "idle", api |-> FALSE, attempt |-> 0, endpoint |-> 1, batch |-> <<>>,
         new |-> <<>>, loop |-> "create", todo |-> <<>>, count |-> 0, dead |-> FALSE,
         owed |-> {}, added |-> [i \in Items |-> 0], lost |-> FALSE]

CallRecords ==
    [pc: {"idle", "fetch", "check", "bulk", "lookup", "insert", "reply", "done", "failed"},
     api: BOOLEAN, attempt: 0..MaxRetries, endpoint: 1..Endpoints,
     batch: Seq(Items), new: Seq(Items), loop: {"create", "fallback"},
     todo: Seq(Items), count: Nat, dead: BOOLEAN,
     owed: SUBSET Items, added: [Items -> Nat], lost: BOOLEAN]

TypeOK ==
    /\ upsert \in BOOLEAN
    /\ rows \in [Items -> Nat]
    /\ call \in [Calls -> CallRecords]
    /\ round \in 0..Rounds

Init ==
    /\ upsert \in BOOLEAN
    /\ rows = [i \in Items |-> 0]
    /\ call = [c \in Calls |-> Idle]
    /\ round = 0

At(c, pc) == call[c].pc = pc
Set(c, new) == call' = [call EXCEPT ![c] = new]

-----------------------------------------------------------------------------
(* The messages table *)

Known(i) == Ext[i] # NoId /\ \E j \in Items : Ext[j] = Ext[i] /\ rows[j] > 0

\* An ingested message is there, or another with its external id is.
Present(i) == rows[i] > 0 \/ Known(i)

\* The messages of a batch that an INSERT that skips conflicts inserts.
Fresh(s) ==
    {s[k] : k \in {k \in DOMAIN s :
        \/ Ext[s[k]] = NoId
        \/ ~Known(s[k]) /\ \A l \in 1..(k - 1) : Ext[s[l]] # Ext[s[k]]}}

Plus(counts, S) == [i \in Items |-> IF i \in S THEN counts[i] + 1 ELSE counts[i]]

-----------------------------------------------------------------------------
(* The TAS API, the ingest endpoint *)

Free(c) == call[c].pc \in {"idle", "done", "failed"} /\ round < Rounds

Parsed(s) == Only(s, Items \ Broken)

\* A call that has read its source, with what it found there.
Having(api, batch, owed) ==
    [Idle EXCEPT !.pc = IF batch = <<>> THEN "done" ELSE "check",
                 !.api = api, !.batch = batch, !.owed = owed]

\* POST /messages/ingest; an empty or a malformed list is refused.
Deliver(c, batch) ==
    /\ Free(c) /\ batch # <<>> /\ Parsed(batch) = batch
    /\ Set(c, Having(TRUE, batch, Range(batch)))
    /\ round' = round + 1
    /\ UNCHANGED <<upsert, rows>>

\* ingest_from_csv: a timestamp that cannot be parsed becomes the present.
Import(c, batch) ==
    /\ Free(c) /\ Parsed(batch) = batch
    /\ Set(c, Having(FALSE, batch, Range(batch)))
    /\ round' = round + 1
    /\ UNCHANGED <<upsert, rows>>

\* ingest_from_tas_api
StartFetch(c) ==
    /\ Free(c)
    /\ Set(c, [Idle EXCEPT !.pc = "fetch"])
    /\ round' = round + 1
    /\ UNCHANGED <<upsert, rows>>

\* One attempt after another, while one is left.
BugTrying(c) == At(c, "fetch") /\ call[c].attempt <= MaxRetries
Trying(c) == At(c, "fetch") /\ call[c].attempt < MaxRetries

\* The entries of the answer, without those that raise.
Fetched(c, answer) ==
    /\ Trying(c)
    /\ Set(c, Having(FALSE, Parsed(answer), Range(answer) \ Broken))
    /\ UNCHANGED <<upsert, rows, round>>

\* 404: the next endpoint; after the last one there is nothing to ingest.
NotFound(c) ==
    /\ Trying(c)
    /\ Set(c, IF call[c].endpoint < Endpoints
              THEN [call[c] EXCEPT !.endpoint = @ + 1]
              ELSE [Idle EXCEPT !.pc = "done"])
    /\ UNCHANGED <<upsert, rows, round>>

\* A timeout, a network error or a 5xx is tried again, from the first endpoint.
BugSameAttempt(attempt) == attempt
NextAttempt(attempt) == attempt + 1

FetchFails(c) ==
    /\ Trying(c)
    /\ Set(c, [call[c] EXCEPT !.attempt = NextAttempt(@), !.endpoint = 1])
    /\ UNCHANGED <<upsert, rows, round>>

\* No attempt is left, or the answer was a 4xx.
GiveUp(c) ==
    /\ At(c, "fetch")
    /\ Set(c, [Idle EXCEPT !.pc = "done"])
    /\ UNCHANGED <<upsert, rows, round>>

-----------------------------------------------------------------------------
(* ingest_from_tas_storage: every file of the directory, or the one file *)

\* A file of JSON lines is read when it is no JSON document: a single line is one,
\* an object without the keys of a log, and empty.
LinesOf(f) ==
    IF Len(f.entries) = 1 /\ Head(f.entries) \notin Junk THEN <<>> ELSE f.entries

Entries(f) ==
    CASE f.kind = "other" -> <<>> [] f.kind = "lines" -> LinesOf(f) [] OTHER -> f.entries

\* An entry that raises ends its file and keeps what was read of it; a line that is
\* no JSON is passed over, and so is an entry that is too old.
UpToError(s) ==
    LET raises == {k \in DOMAIN s : s[k] \in Broken} IN
    IF raises = {} THEN s ELSE SubSeq(s, 1, Min(raises) - 1)

ReadFile(f) == Only(UpToError(Entries(f)), Items \ (Junk \cup Old))

\* os.listdir gives the files in any order.  A path that does not exist has none.
ReadStorage(c, files) ==
    /\ Free(c)
    /\ \E order \in SetToSeqs(files) :
          Set(c, Having(FALSE, FlattenSeq([k \in DOMAIN order |-> ReadFile(order[k])]),
                        UNION {Range(f.entries) \ (Junk \cup Old) :
                                  f \in {f \in files : Entries(f) # <<>>
                                            /\ Range(f.entries) \cap Broken = {}}}))
    /\ round' = round + 1
    /\ UNCHANGED <<upsert, rows>>

-----------------------------------------------------------------------------
(* ingest_batch *)

NewOf(s) == Only(s, {i \in Items : ~Known(i)})

\* get_existing_external_ids
CheckExisting(c) ==
    LET new == NewOf(call[c].batch) IN
    /\ At(c, "check")
    /\ Set(c, IF new = <<>>
              THEN [call[c] EXCEPT !.pc = "reply"]
              ELSE [call[c] EXCEPT !.pc = "bulk", !.new = new])
    /\ UNCHANGED <<upsert, rows, round>>

Conflicts(s) == {s[k] : k \in DOMAIN s} # Fresh(s)
Refused(s) == \E k \in DOMAIN s : s[k] \in Bad
Inserts(s) == ~Refused(s) /\ (upsert \/ ~Conflicts(s))

\* bulk_create: all of `new` in one transaction, duplicates skipped or, in a
\* dialect without such an INSERT, none there.  It counts them all.
BulkInsert(c) ==
    LET new == call[c].new IN
    /\ At(c, "bulk") /\ Inserts(new)
    /\ rows' = Plus(rows, Fresh(new))
    /\ Set(c, [call[c] EXCEPT !.pc = "reply", !.count = Len(new),
                              !.added = Plus(@, Fresh(new))])
    /\ UNCHANGED <<upsert, round>>

\* A duplicate: roll back, _bulk_create_fallback.
BulkConflict(c) ==
    LET new == call[c].new IN
    /\ At(c, "bulk") /\ ~Refused(new) /\ ~upsert /\ Conflicts(new)
    /\ Set(c, [call[c] EXCEPT !.pc = "lookup", !.loop = "fallback", !.todo = new])
    /\ UNCHANGED <<upsert, rows, round>>

\* The rows that a bulk insert leaves after its rollback.
BugKeepsRows(new) == Fresh(new)
Survivors(new) == {}

\* Any other error: roll back, raise, and ingest_batch inserts the whole batch
\* message by message with create.
Retry(c, S) ==
    [call[c] EXCEPT !.pc = "lookup", !.loop = "create", !.todo = call[c].batch,
                    !.added = Plus(@, S)]

BulkError(c) ==
    LET S == Survivors(call[c].new) IN
    /\ At(c, "bulk")
    /\ Refused(call[c].new) \/ "bulk_error" \in Faults
    /\ rows' = Plus(rows, S)
    /\ Set(c, Retry(c, S))
    /\ UNCHANGED <<upsert, round>>

\* The commit went through and only its answer was lost: an error like any other.
BulkAnswerLost(c) ==
    LET S == Fresh(call[c].new) IN
    /\ At(c, "bulk") /\ Inserts(call[c].new) /\ "lost_ack" \in Faults
    /\ rows' = Plus(rows, S)
    /\ Set(c, [Retry(c, S) EXCEPT !.lost = TRUE])
    /\ UNCHANGED <<upsert, round>>

\* A message without an external id is not looked up; one that is there counts
\* as ingested in create, and not in _bulk_create_fallback.
Lookup(c) ==
    LET i == Head(call[c].todo) IN
    /\ At(c, "lookup") /\ call[c].todo # <<>>
    /\ Set(c, IF Known(i)
              THEN [call[c] EXCEPT !.todo = Tail(@),
                                   !.count = IF call[c].loop = "create" THEN @ + 1 ELSE @]
              ELSE [call[c] EXCEPT !.pc = "insert"])
    /\ UNCHANGED <<upsert, rows, round>>

InsertOne(c) ==
    LET i == Head(call[c].todo) IN
    /\ At(c, "insert") /\ ~Known(i) /\ i \notin Bad
    /\ rows' = Plus(rows, {i})
    /\ Set(c, [call[c] EXCEPT !.pc = "lookup", !.todo = Tail(@), !.count = @ + 1,
                              !.added = Plus(@, {i})])
    /\ UNCHANGED <<upsert, round>>

\* What a loop still does after an insert that failed.  _bulk_create_fallback
\* rolls back and goes on; create leaves the session in the failed transaction,
\* where every later statement of the loop raises and is skipped too.
BugEndsLoop(c) == [call[c] EXCEPT !.pc = "lookup", !.todo = <<>>]
BugCounts(c) == [call[c] EXCEPT !.pc = "lookup", !.todo = Tail(@), !.count = @ + 1]
AfterFailure(c) ==
    IF call[c].loop = "fallback"
    THEN [call[c] EXCEPT !.pc = "lookup", !.todo = Tail(@)]
    ELSE [call[c] EXCEPT !.pc = "lookup", !.todo = <<>>, !.dead = TRUE]

\* The answer to a single commit is lost.
InsertAnswerLost(c) ==
    LET i == Head(call[c].todo) IN
    /\ At(c, "insert") /\ ~Known(i) /\ i \notin Bad /\ "lost_ack" \in Faults
    /\ rows' = Plus(rows, {i})
    /\ Set(c, [AfterFailure(c) EXCEPT !.added = Plus(@, {i})])
    /\ UNCHANGED <<upsert, round>>

InsertFails(c) ==
    LET i == Head(call[c].todo) IN
    /\ At(c, "insert") /\ (Known(i) \/ i \in Bad)
    /\ Set(c, AfterFailure(c))
    /\ UNCHANGED <<upsert, rows, round>>

LoopDone(c) ==
    /\ At(c, "lookup") /\ call[c].todo = <<>>
    /\ Set(c, [call[c] EXCEPT !.pc = "reply"])
    /\ UNCHANGED <<upsert, rows, round>>

\* The endpoint reads the last id when something was ingested, with the session
\* as the batch left it.
Reply(c) ==
    /\ At(c, "reply")
    /\ Set(c, [call[c] EXCEPT !.pc = IF call[c].api /\ call[c].count > 0 /\ call[c].dead
                                     THEN "failed" ELSE "done"])
    /\ UNCHANGED <<upsert, rows, round>>

-----------------------------------------------------------------------------
Fetch(c) ==
    \/ \E batch \in Batches \cup {<<>>} : Fetched(c, batch)
    \/ NotFound(c) \/ FetchFails(c) \/ GiveUp(c)

Store(c) ==
    \/ CheckExisting(c)
    \/ BulkInsert(c) \/ BulkConflict(c) \/ BulkError(c) \/ BulkAnswerLost(c)
    \/ Lookup(c) \/ InsertOne(c) \/ InsertFails(c) \/ InsertAnswerLost(c)
    \/ LoopDone(c) \/ Reply(c)

Next ==
    \E c \in Calls :
        \/ \E batch \in Batches : Deliver(c, batch) \/ Import(c, batch)
        \/ \E files \in Storages : ReadStorage(c, files)
        \/ StartFetch(c) \/ Fetch(c) \/ Store(c)

Spec == Init /\ [][Next]_vars

\* The client times out, and the event loop runs every call that can go on.
FairSpec == Spec /\ \A c \in Calls : WF_vars(Fetch(c) \/ Store(c))

-----------------------------------------------------------------------------
Answered(c) == call[c].pc \in {"reply", "done", "failed"}

\* A call whose session survived left nothing out: whatever overlapped with it,
\* whichever way the batch went and whatever raised in another entry of the answer
\* or in another file of the storage, each message that the database takes is in
\* the table.
NothingLost ==
    \A c \in Calls :
        Answered(c) /\ ~call[c].dead => \A i \in call[c].owed \ Bad : Present(i)

\* A call never counts a message that is not there, whichever loop it went through
\* and whatever overlapped with it: each one it reports as ingested is in the
\* table, by this call or by another one.  (It is no count of what it inserted
\* itself; see CountedIsInserted.)
CountedIsStored ==
    \A c \in Calls :
        call[c].count <= Cardinality({k \in DOMAIN call[c].batch : Present(call[c].batch[k])})

\* "Number of messages actually ingested (excluding duplicates)", says the docstring
\* of ingest_batch, and "Number of messages inserted" that of bulk_create.  They are
\* refuted: a message that another call stored after the check for duplicates is
\* skipped by the bulk insert and counted all the same.
CountedIsInserted ==
    \A c \in Calls : call[c].pc = "done" => call[c].count = SumFunction(call[c].added)

\* One call stores a message once, also when it changes from the bulk insert to
\* single ones, after a commit that it never heard of too: the external id keeps
\* the retry from storing it again.  Only a message without one is repeated then,
\* and no more than once.
StoredOnce ==
    \A c \in Calls, i \in Items :
        call[c].added[i] <= IF Ext[i] = NoId /\ call[c].lost THEN 2 ELSE 1

\* Retries end and every call gets an answer.
CallReturns ==
    \A c \in Calls : []<>(call[c].pc \in {"idle", "done", "failed"})
=============================================================================
