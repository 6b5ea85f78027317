------------------------------- MODULE PatasApi -------------------------------
(***************************************************************************)
(* What a client of app/api/main.py reads of the rules while other calls   *)
(* create, move and evaluate them: a walk through the pages of GET /rules, *)
(* POST /analyze, whose answer lists rules and exports the active ones, and*)
(* the exports by themselves, GET /rules/export and the command.           *)
(*                                                                         *)
(* A step is one query of the call: it runs in READ COMMITTED or on        *)
(* SQLite, so each query sees what is committed by then.  Ingesting,       *)
(* mining and evaluating inside of POST /analyze are the calls of other    *)
(* modules; the rules they create appear as those of anyone else.          *)
(***************************************************************************)
EXTENDS Integers, FiniteSets, Sequences, SequencesExt, Functions

CONSTANTS
    Rules,
    SqlOf,         \* their sql_expression
    Limit,         \* of a page
    SummaryLimit,  \* how many rules an analysis describes
    ExportLimit,   \* how many rules the command reads before it filters them
    MaxStamp, MaxChanges,   \* bounds: created_at, changes by other calls
    All            \* no status filter

VARIABLES
    rule,      \* the rules table with the latest evaluation of each
    changes,   \* what other calls have changed so far
    request    \* the walk or the analysis of the client

apiVars == <<rule, changes, request>>

\* What the constants are; a module that instantiates this one assumes it.
ApiAssumption ==
    /\ IsFiniteSet(Rules)
    /\ Limit \in Nat \ {0} /\ SummaryLimit \in Nat /\ ExportLimit \in Nat
    /\ MaxStamp \in Nat /\ MaxChanges \in Nat
    /\ All \notin {"candidate", "shadow", "active", "deprecated"}

\* Forward along the lifecycle.
Statuses == <<"candidate", "shadow", "active", "deprecated">>
Rank(status) == IF status = "none" THEN 0 ELSE CHOOSE k \in 1..4 : Statuses[k] = status
RuleRows == [status: {"none"} \cup Range(Statuses), stamp: 0..MaxStamp, precise: BOOLEAN]

\* `filter` is the status asked for, `strict` a least precision, `unique` the
\* parameter deduplicate.  `todo` are the rules still to describe, `kept` those
\* described; `seen` and `exported` is what the client got, and `owed` a history
\* variable: the rules that were there from the start and did not leave.
Idle == [pc |-> "idle", filter |-> All, strict |-> FALSE, unique |-> FALSE, offset |-> 0,
         phase |-> 1, list |-> <<>>, todo |-> <<>>, kept |-> <<>>,
         seen |-> {}, exported |-> {}, owed |-> {}]

ApiTypeOK ==
    /\ rule \in [Rules -> RuleRows]
    /\ changes \in 0..MaxChanges
    /\ request \in [pc: {"idle", "page", "rules", "walked", "status", "summaries", "answered",
                       "exported"},
                 filter: {All} \cup Range(Statuses), strict: BOOLEAN, unique: BOOLEAN,
                 offset: Nat, phase: 1..4, list: Seq(Rules), todo: Seq(Rules),
                 kept: Seq(Rules), seen: SUBSET Rules, exported: SUBSET Rules,
                 owed: SUBSET Rules]

\* Rules with any history, up to one that does not exist yet.
ApiInit ==
    /\ rule \in [Rules -> {r \in RuleRows : r.status = "none" => r.stamp = 0 /\ r.precise}]
    /\ Cardinality({r \in Rules : rule[r].status = "none"}) <= 1
    /\ changes = 0
    /\ request = Idle

There(status) ==
    {r \in Rules : rule[r].status \in IF status = All THEN Range(Statuses) ELSE {status}}

-----------------------------------------------------------------------------
(* The other calls *)

\* Before the request there is any history, after the answer nothing counts.
Change ==
    /\ changes < MaxChanges /\ request.pc \notin {"idle", "walked", "answered", "exported"}
    /\ changes' = changes + 1

\* created_at is a second on SQLite and the start of the transaction on PostgreSQL:
\* rules share one, and a rule may appear after a younger one.
Create(r) ==
    /\ Change /\ rule[r].status = "none"
    /\ \E s \in 0..MaxStamp :
          /\ \A q \in There(All) : rule[q].stamp <= s + 1
          /\ rule' = [rule EXCEPT ![r].status = "candidate", ![r].stamp = s]
    /\ UNCHANGED request

\* Every move in or out of a status; the races of RulePromotion make some go back.
\* Whoever leaves moves the older rules of that status one place forward; an
\* analysis promises nothing of a rule that goes back or out.
Move(r, status) ==
    LET from == rule[r].status IN
    /\ Change /\ from \notin {"none", status}
    /\ rule' = [rule EXCEPT ![r].status = status]
    /\ request' = [request EXCEPT !.owed =
           IF request.pc \in {"status", "summaries"}
           THEN IF Rank(status) \in {1, 2, 3} /\ Rank(status) > Rank(from) THEN @ ELSE @ \ {r}
           ELSE IF request.filter = from
           THEN {q \in @ : rule[q].stamp > rule[r].stamp} ELSE @]

\* A new evaluation with another precision.
Evaluate(r) ==
    /\ Change /\ rule[r].status # "none"
    /\ rule' = [rule EXCEPT ![r].precise = ~@]
    /\ request' = [request EXCEPT !.owed = IF request.strict THEN @ \ {r} ELSE @]

-----------------------------------------------------------------------------
(* RuleRepository *)

\* ORDER BY created_at DESC: those of one second in any order.
Newest(S) ==
    {s \in SetToSeqs(S) : \A k, l \in DOMAIN s : k < l => rule[s[k]].stamp >= rule[s[l]].stamp}

\* list_all for a page: as many as the page ends at.
Fetched(offset) == offset + Limit

UpTo(n, s) == SubSeq(s, 1, IF n < Len(s) THEN n ELSE Len(s))
From(n, s) == SubSeq(s, n + 1, Len(s))

-----------------------------------------------------------------------------
(* list_rules, page after page *)

Meets(r, strict) == strict => rule[r].precise

StartWalk(filter, strict, unique) ==
    /\ request.pc = "idle"
    /\ request' = [Idle EXCEPT !.pc = "page", !.filter = filter, !.strict = strict,
                            !.unique = unique,
                            !.owed = {r \in There(filter) : Meets(r, strict)}]
    /\ UNCHANGED <<rule, changes>>

\* With a status, get_by_status lists all its rules; the slice is taken from either.
ListPage ==
    /\ request.pc = "page"
    /\ \E order \in Newest(There(request.filter)) :
          LET read == IF request.filter = All THEN UpTo(Fetched(request.offset), order) ELSE order
              page == UpTo(Limit, From(request.offset, read))
          IN request' = [request EXCEPT !.pc = "rules", !.list = page, !.todo = page]
    /\ UNCHANGED <<rule, changes>>

\* get_latest_for_rule; filter_rules_by_precision drops a rule without precision
\* or with less than asked for.
Describe(pc) ==
    LET r == Head(request.todo) IN
    /\ request.pc = pc /\ request.todo # <<>>
    /\ request' = [request EXCEPT !.todo = Tail(@),
                            !.kept = IF Meets(r, request.strict) THEN Append(@, r) ELSE @]
    /\ UNCHANGED <<rule, changes>>

DescribeRule == Describe("rules")

\* Of the rules of a page with one text the first stays.
Unique(s) == {s[k] : k \in {k \in DOMAIN s : \A l \in 1..(k - 1) : SqlOf[s[l]] # SqlOf[s[k]]}}

\* The answer; the client goes on until a page was short before it was filtered.
AnswerPage ==
    /\ request.pc = "rules" /\ request.todo = <<>>
    /\ request' = [request EXCEPT
           !.pc = IF Len(request.list) < Limit THEN "walked" ELSE "page",
           !.seen = @ \cup IF request.unique THEN Unique(request.kept) ELSE Range(request.kept),
           !.offset = @ + Limit, !.list = <<>>, !.kept = <<>>]
    /\ UNCHANGED <<rule, changes>>

-----------------------------------------------------------------------------
(* analyze_batch *)

\* The statuses in the order of the queries.
BugQueried == <<"active", "shadow", "candidate">>
Queried == <<"candidate", "shadow", "active">>

\* Ingested, mined and evaluated.
StartAnalysis(strict) ==
    /\ request.pc = "idle"
    /\ request' = [Idle EXCEPT !.pc = "status", !.strict = strict,
                            !.owed = {r \in UNION {There(s) : s \in Range(Queried)} :
                                         Meets(r, strict)}]
    /\ UNCHANGED <<rule, changes>>

\* get_by_status for candidate, shadow and active, one list after the other.
ReadStatus ==
    /\ request.pc = "status" /\ request.phase <= Len(Queried)
    /\ \E order \in Newest(There(Queried[request.phase])) :
          request' = [request EXCEPT !.list = @ \o order, !.phase = @ + 1]
    /\ UNCHANGED <<rule, changes>>

\* The first of the list are described; grouping by pattern only reorders them.
BeginSummaries ==
    /\ request.pc = "status" /\ request.phase > Len(Queried)
    /\ request' = [request EXCEPT !.pc = "summaries", !.todo = UpTo(SummaryLimit, request.list)]
    /\ UNCHANGED <<rule, changes>>

SummarizeRule == Describe("summaries")

\* export_active_rules, through either backend.
Exported == There("active")

\* With an export or without, and the report.
Answer ==
    /\ request.pc = "summaries" /\ request.todo = <<>>
    /\ \E exported \in {{}, Exported} :
          request' = [request EXCEPT !.pc = "answered", !.seen = Range(request.kept),
                               !.exported = exported]
    /\ UNCHANGED <<rule, changes>>

-----------------------------------------------------------------------------
(* export_rules, cmd_export_rules *)

ExportActive ==
    /\ request.pc = "idle"
    /\ request' = [Idle EXCEPT !.pc = "exported", !.exported = Exported]
    /\ UNCHANGED <<rule, changes>>

\* export_sql_only leaves out what was deprecated.
Executable(S) == {r \in S : rule[r].status \in {"candidate", "shadow", "active"}}

\* The status is looked at after the newest rules were taken.
ExportFile(filter, executable) ==
    /\ request.pc = "idle"
    /\ \E order \in Newest(There(All)) :
          LET listed == Range(UpTo(ExportLimit, order)) \cap There(filter) IN
          request' = [Idle EXCEPT !.pc = "exported", !.filter = filter,
                         !.exported = IF executable THEN Executable(listed) ELSE listed]
    /\ UNCHANGED <<rule, changes>>

-----------------------------------------------------------------------------
Background ==
    \E r \in Rules :
        Create(r) \/ Evaluate(r) \/ \E status \in Range(Statuses) : Move(r, status)

ApiNext ==
    \/ Background
    \/ \E filter \in {All, "shadow"}, strict, unique \in BOOLEAN :
          StartWalk(filter, strict, unique) \/ StartAnalysis(strict)
    \/ ListPage \/ DescribeRule \/ AnswerPage
    \/ ReadStatus \/ BeginSummaries \/ SummarizeRule \/ Answer
    \/ ExportActive
    \/ \E filter \in {All} \cup Range(Statuses), executable \in BOOLEAN :
          ExportFile(filter, executable)

ApiSpec == ApiInit /\ [][ApiNext]_apiVars

-----------------------------------------------------------------------------
Tied(r) == \E q \in There(All) \ {r} : rule[q].stamp = rule[r].stamp

\* Whatever is created, promoted and evaluated between its pages, a walk shows
\* every rule that was there from the start, met the filters all the time and
\* shares its created_at with no other, or one with the same text; of a status,
\* unless a younger rule left it meanwhile.
PagesMissNothing ==
    request.pc = "walked" =>
        \A r \in request.owed :
            ~Tied(r) =>
                IF request.unique THEN SqlOf[r] \in {SqlOf[q] : q \in request.seen}
                                  ELSE r \in request.seen

\* Whatever is promoted between the queries of an analysis, its list holds every
\* rule that was in use from the start and only moved forward, and so explains
\* each of those that it exports, unless the list was cut.
AnalysisExplains ==
    request.pc = "answered" /\ Len(request.list) <= SummaryLimit =>
        request.owed \subseteq request.seen

ReadsMissNothing == PagesMissNothing /\ AnalysisExplains
===============================================================================
