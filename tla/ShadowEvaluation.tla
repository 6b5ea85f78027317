--------------------------- MODULE ShadowEvaluation ---------------------------
(***************************************************************************)
(* A pass over the rules in SHADOW: evaluate_rule and                      *)
(* evaluate_all_shadow_rules of app/v2_shadow_evaluation.py, called by     *)
(* commands, the evaluate endpoint and the harness of v2_eval_harness.py.  *)
(*                                                                         *)
(* The workers of a pass share one database session.  The session keeps    *)
(* the rules as it listed them, so a status that another session changes   *)
(* meanwhile is not noticed.  What rules are in SHADOW changes as          *)
(* RulePromotion says; here they come and go.  Texts of rules are those of *)
(* SqlSafety.                                                              *)
(***************************************************************************)
EXTENDS SqlSafety, OrderedFilter, FiniteSets

CONSTANTS
    Rules,
    SqlOf,       \* the text of a rule
    Mode,        \* how sqlparse behaves
    Qualities,   \* precisions, in percent, of the latest evaluation
    MaxRules,    \* max_shadow_rules_to_evaluate, 0 for no bound
    Workers,     \* shadow_evaluation_parallel_workers
    Nothing      \* no evaluation

VARIABLES
    shadow,      \* the rules in SHADOW, newest first
    latest,      \* rule -> precision of its latest evaluation, or Nothing
    pass,        \* the pass under way or the last one
    queue,       \* worker -> rules it has yet to evaluate
    results      \* rule -> what the pass returns for it

shadowVars == <<shadow, latest, pass, queue, results>>

NoPass == [pc |-> "idle", harness |-> FALSE, listed |-> <<>>, chosen |-> <<>>]
NoQueues == [w \in 1..Workers |-> <<>>]

\* What the constants are; a module that instantiates this one assumes it.
ShadowAssumption ==
    /\ IsFiniteSet(Rules) /\ Qualities \subseteq Nat
    /\ MaxRules \in Nat /\ Workers \in Nat \ {0}

ShadowTypeOK ==
    /\ shadow \in Seq(Rules) /\ IsInjective(shadow)
    /\ latest \in [Rules -> Qualities \cup {Nothing}]
    /\ pass \in [pc: {"idle", "mine", "list", "choose", "work", "done", "failed"},
                 harness: BOOLEAN, listed: Seq(Rules), chosen: Seq(Rules)]
    /\ queue \in [1..Workers -> Seq(Rules)]
    /\ DOMAIN results \subseteq Rules

ShadowInit ==
    /\ shadow \in {s \in UNION {[1..n -> Rules] : n \in 0..Cardinality(Rules)} : IsInjective(s)}
    /\ latest \in [Rules -> Qualities \cup {Nothing}]
    /\ pass = NoPass /\ queue = NoQueues /\ results = <<>>

-----------------------------------------------------------------------------
(* Other sessions *)

\* move_to_shadow of a new rule, promote_to_active or deprecate of another.
Enter(r) ==
    /\ r \notin Range(shadow)
    /\ shadow' = <<r>> \o shadow
    /\ UNCHANGED <<latest, pass, queue, results>>

Leave(r) ==
    /\ r \in Range(shadow)
    /\ shadow' = Only(shadow, Rules \ {r})
    /\ UNCHANGED <<latest, pass, queue, results>>

-----------------------------------------------------------------------------
(* evaluate_rule *)

\* auto_fix_sql_errors adds a table when none is named, and puts "messages" for a
\* name after FROM that has a blank behind it: not for one at the end of the text,
\* nor before a comma or a parenthesis.
Replaceable(s) ==
    {i \in DOMAIN s.tables :
        s.tables[i] # "messages" /\ (s.where = "none" => i # Len(s.tables))}

\* A second replacement goes by places from before the first one, and may hit
\* anything from there on: what it leaves of the later names is open.
Renamed(names, B) ==
    IF Cardinality(B) <= 1 THEN {[i \in DOMAIN names |-> IF i \in B THEN "messages" ELSE names[i]]}
    ELSE {t \in UNION {[1..n -> AllowedTables \cup {"users"}] : n \in 1..Len(names)} :
             \E i \in B : /\ \A j \in B : i <= j
                         /\ i \in DOMAIN t /\ t[i] = "messages"
                         /\ \A j \in 1..(i - 1) : t[j] = names[j]}

\* The texts it may give.
AutoFixed(s) ==
    IF s.tables = <<>>
    THEN {[s EXCEPT !.tables = IF s.head \in {"select", "with"} THEN <<"messages">> ELSE @]}
    ELSE UNION {{[s EXCEPT !.tables = t] : t \in Renamed(s.tables, B)} :
                    B \in SUBSET Replaceable(s)}

\* The text is put in capitals, and "FROM messages" is looked for in it.
Capitals == {"FROM MESSAGES"}
FoundInCapitals == "FROM messages" \in Capitals

\* None for a text that is not valid or does not name the table.  What comes
\* after that, the query and the metrics, is never reached.
Evaluations(s) ==
    {IF Valid(fixed, Mode) /\ FoundInCapitals THEN "evaluation" ELSE Nothing :
        fixed \in AutoFixed(s)}

-----------------------------------------------------------------------------
(* evaluate_all_shadow_rules *)

StartPass ==
    /\ pass.pc \in {"idle", "done", "failed"}
    /\ pass' = [NoPass EXCEPT !.pc = "list"]
    /\ queue' = NoQueues /\ results' = <<>>
    /\ UNCHANGED <<shadow, latest>>

\* eval-rules or the endpoint with a rule: that rule, of any status, by itself.
\* The endpoint takes its rules one by one and counts each that does not raise.
EvaluateNamed(r) ==
    /\ pass.pc \in {"idle", "done", "failed"}
    /\ pass' = [NoPass EXCEPT !.pc = "done", !.listed = <<r>>, !.chosen = <<r>>]
    /\ queue' = NoQueues
    /\ \E evaluation \in Evaluations(SqlOf[r]) : results' = [x \in {r} |-> evaluation]
    /\ UNCHANGED <<shadow, latest>>

\* run_evaluation mines first.  Too little spam ends it; the two-stage pipeline
\* raises, for it does not take all the arguments that it is given.
StartHarness ==
    /\ pass.pc \in {"idle", "done", "failed"}
    /\ pass' = [NoPass EXCEPT !.pc = "mine", !.harness = TRUE]
    /\ queue' = NoQueues /\ results' = <<>>
    /\ UNCHANGED <<shadow, latest>>

HarnessMines ==
    /\ pass.pc = "mine"
    /\ \E pc \in {"list", "failed"} : pass' = [pass EXCEPT !.pc = pc]
    /\ UNCHANGED <<shadow, latest, queue, results>>

ListShadow ==
    /\ pass.pc = "list"
    /\ pass' = [pass EXCEPT !.pc = "choose", !.listed = shadow]
    /\ UNCHANGED <<shadow, latest, queue, results>>

\* A rule without evaluation counts as half right.
Quality(r) == IF latest[r] = Nothing THEN 50 ELSE latest[r]

\* How many rules a stable sort by quality, best first, puts before the i-th.
Before(s, i) ==
    Cardinality({j \in DOMAIN s : \/ Quality(s[j]) > Quality(s[i])
                                  \/ Quality(s[j]) = Quality(s[i]) /\ j < i})

Limited(s) == MaxRules # 0 /\ Len(s) > MaxRules

Chosen(s) ==
    IF Limited(s)
    THEN [k \in 1..MaxRules |-> s[CHOOSE i \in DOMAIN s : Before(s, i) = k - 1]]
    ELSE s

\* Every Workers-th rule from the w-th on; with one worker, or one rule, all.
BugChunk(s, w) ==
    IF Workers > 1 /\ Len(s) > 1
    THEN LET size == Len(s) \div Workers IN SubSeq(s, (w - 1) * size + 1, w * size)
    ELSE IF w = 1 THEN s ELSE <<>>
Chunk(s, w) ==
    IF Workers > 1 /\ Len(s) > 1
    THEN [k \in 1..((Len(s) - w) \div Workers + 1) |-> s[(k - 1) * Workers + w]]
    ELSE IF w = 1 THEN s ELSE <<>>

Choose ==
    LET chosen == Chosen(pass.listed) IN
    /\ pass.pc = "choose"
    /\ pass' = [pass EXCEPT !.pc = IF chosen = <<>> THEN "done" ELSE "work",
                            !.chosen = chosen]
    /\ queue' = [w \in 1..Workers |-> Chunk(chosen, w)]
    /\ UNCHANGED <<shadow, latest, results>>

EvaluateNext(w) ==
    /\ pass.pc = "work" /\ queue[w] # <<>>
    /\ LET r == Head(queue[w]) IN
       \E evaluation \in Evaluations(SqlOf[r]) :
          results' = [x \in DOMAIN results \cup {r} |-> IF x = r THEN evaluation ELSE results[x]]
    /\ queue' = [queue EXCEPT ![w] = Tail(@)]
    /\ UNCHANGED <<shadow, latest, pass>>

\* Two workers use the session at one time: it raises, and so does the pass.
SessionBusy ==
    /\ pass.pc = "work"
    /\ Cardinality({w \in 1..Workers : queue[w] # <<>>}) > 1
    /\ pass' = [pass EXCEPT !.pc = "failed"]
    /\ UNCHANGED <<shadow, latest, queue, results>>

\* All workers are done and their results merged.
FinishPass ==
    /\ pass.pc = "work" /\ \A w \in 1..Workers : queue[w] = <<>>
    /\ pass' = [pass EXCEPT !.pc = "done"]
    /\ UNCHANGED <<shadow, latest, queue, results>>

\* Without dry_run the harness goes on with the rules to promote: which of them
\* leave is RulePromotion's.
HarnessPromotes ==
    /\ pass.pc = "done" /\ pass.harness
    /\ pass' = [pass EXCEPT !.harness = FALSE]
    /\ \E promoted \in SUBSET Range(shadow) :
          shadow' = Only(shadow, Rules \ promoted)
    /\ UNCHANGED <<latest, queue, results>>

ShadowNext ==
    \/ \E r \in Rules : Enter(r) \/ Leave(r) \/ EvaluateNamed(r)
    \/ StartPass \/ StartHarness \/ HarnessMines \/ ListShadow \/ Choose
    \/ \E w \in 1..Workers : EvaluateNext(w)
    \/ SessionBusy \/ FinishPass \/ HarnessPromotes

ShadowSpec == ShadowInit /\ [][ShadowNext]_shadowVars

-----------------------------------------------------------------------------
\* A pass that returns has a result for exactly the rules it chose: the split over
\* the workers and the merge leave none out and invent none.  Without a bound it
\* chose all that it listed; with one, as many as the bound says and none that is
\* worse than a rule left out.
SelectionCovers ==
    pass.pc = "done" =>
        LET chosen == Range(pass.chosen) IN
        /\ DOMAIN results = chosen
        /\ IF Limited(pass.listed)
           THEN /\ Cardinality(chosen) = MaxRules
                /\ \A r \in chosen, x \in Range(pass.listed) \ chosen : Quality(r) >= Quality(x)
           ELSE chosen = Range(pass.listed)

\* A rule with a valid text gets an evaluation in a pass that returns: None is for
\* a rule with too few hits, and here every rule has enough.
EvaluationRecorded ==
    pass.pc = "done" =>
        \A r \in DOMAIN results :
            (\A fixed \in AutoFixed(SqlOf[r]) : Valid(fixed, Mode)) => results[r] # Nothing
=============================================================================
