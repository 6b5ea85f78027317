------------------------------ MODULE SqlSafety ------------------------------
(***************************************************************************)
(* The checks of app/v2_sql_safety.py on the SQL of a rule, and the        *)
(* rewriting of its table in app/v2_rule_backend.py.                       *)
(*                                                                         *)
(* A text is a record of what the checks look for: how it starts (`head`), *)
(* what some pattern finds anywhere in it, literals included (`has`), the  *)
(* names after each FROM (`tables`), what is selected (`columns`), the     *)
(* names that the WHERE clause compares (`refs`), the form of that clause  *)
(* (`where`), the literals of LIKE '%...%' (`likes`), how often LIKE (`n`) *)
(* and " OR " (`ors`) occur, and whether " AND " does or, within a longer  *)
(* word, only the letters (`conj`).                                        *)
(*                                                                         *)
(* The mode "tokens" is with the library sqlparse, whose leaf tokens all   *)
(* have a type; "regex" is without it, or when it raises.                  *)
(***************************************************************************)
EXTENDS Integers, Sequences, Functions

AllowedTables == {"messages", "reports"}
AllowedColumns == {"text", "id"}        \* stand for the fourteen of the list
SelectWords == {"distinct", "count"}    \* and the others that the check skips
Likes == {"short", "stop", "word", "phrase", "safe"}   \* kinds of literals
Modes == {"tokens", "regex"}

\* "lower" is a function name that only the WHERE clause may hold; "qualified" a
\* column with its table, "sender_id" any name that is not in the list.
SqlRecords ==
    [head: {"select", "with", "comment", "other"},
     has: SUBSET {"keyword", "semicolon", "subquery", "union", "injection"},
     tables: Seq(AllowedTables \cup {"users"}),
     columns: SUBSET (AllowedColumns \cup SelectWords \cup {"*", "lower", "sender_id"}),
     refs: SUBSET (AllowedColumns \cup {"lower", "qualified", "sender_id"}),
     where: {"conds", "true", "spaced", "or", "none", "joined"},
     likes: SUBSET Likes,
     n: Nat, ors: Nat, conj: {"no", "within", "yes"}]

Conjunction(s) == s.conj = "yes"

-----------------------------------------------------------------------------
(* What a mode lets the checks see *)

\* No leaf token is a group, and none is without type: the walks for subqueries,
\* for tables and for columns find nothing in the token stream.
SubqueriesSeen(s, mode) == mode = "regex" /\ "subquery" \in s.has
TablesSeen(s, mode) == IF mode = "regex" THEN Range(s.tables) ELSE {}
SelectSeen(s, mode) == IF mode = "regex" THEN s.columns ELSE {}
WhereSeen(s, mode) ==
    IF mode = "regex" /\ s.where \notin {"none", "joined"} THEN s.refs ELSE {}

TablesAllowed(s, mode) == TablesSeen(s, mode) \subseteq AllowedTables

\* A star switches the check of the selected columns off; a table in front of a
\* column is taken for a column.
ColumnsAllowed(s, mode) ==
    /\ "*" \in SelectSeen(s, mode) \/ SelectSeen(s, mode) \subseteq AllowedColumns \cup SelectWords
    /\ WhereSeen(s, mode) \subseteq AllowedColumns \cup {"lower"}

\* _is_match_everything: a constant condition in one of the forms it knows, or
\* no WHERE and nothing after the table.
BugMatchesEverything(s) == s.where \in {"true", "or", "none"}
MatchesEverything(s) == s.where \in {"true", "spaced", "or", "none"}

\* validate_sql_rule
Valid(s, mode) ==
    /\ s.head \in {"select", "with"}
    /\ s.has \cap {"keyword", "semicolon", "union", "injection"} = {}
    /\ ~SubqueriesSeen(s, mode)
    /\ TablesAllowed(s, mode)
    /\ ColumnsAllowed(s, mode)
    /\ ~MatchesEverything(s)

-----------------------------------------------------------------------------
(* Running a rule *)

\* sanitize_sql_for_evaluation raises for a text that is not valid; it names the
\* first table anew, unless sqlparse hands back the text as it was.
Sanitized(s, mode, table) ==
    IF mode = "tokens" \/ s.tables = <<>> THEN s
    ELSE [s EXCEPT !.tables[1] = table]

\* check_rule_coverage, of `total` messages with `matches` found: at most 80 %.
\* A statement that fails refuses the rule.
CoverageAllowed(s, mode, total, matches, fails) ==
    /\ Valid(s, mode) /\ ~fails
    /\ total = 0 \/ 100 * matches <= 80 * total

\* test_sql_on_sample
SampleAllowed(s, mode, fails) == Valid(s, mode) /\ ~fails

\* check_sql_performance: a plan that cannot be had refuses nothing.
PerformanceAllowed(s, mode, operations, expensive, fails) ==
    /\ Valid(s, mode)
    /\ fails \/ operations + 10 * expensive <= 1000

\* SqlRuleBackend: the table's name is looked for in the text in capitals and
\* never found, so the first table is always named anew.
RenderRule(s, table) ==
    IF s.tables = <<>> THEN s ELSE [s EXCEPT !.tables[1] = table]

\* export_sql_only takes the rules that are not deprecated, disarmed or not.
ExportSqlOnly(rules, table) ==
    {RenderRule(r.sql, table) : r \in {r \in rules : r.status # "deprecated"}}
=============================================================================
