----------------------------- MODULE RuleDiscovery -----------------------------
(***************************************************************************)
(* From the counted features of a mining run to patterns and candidate     *)
(* rules: _generate_patterns_and_rules and _llm_pattern_discovery of       *)
(* app/v2_pattern_mining.py with the filters that they call, and the       *)
(* semantic stage of app/v2_semantic_mining.py after them.                 *)
(*                                                                         *)
(* One run after another; what overlapping runs do to one another is       *)
(* PatternMining's.  A feature is a record of what the filters ask of it,  *)
(* the text of a rule one of SqlSafety's.  Every pattern and every rule is *)
(* committed when it is created, so a run that stops leaves what it made.  *)
(***************************************************************************)
EXTENDS RuleSafety

CONSTANTS
    Urls,         \* [name, within, count, ham, generic, white, marks, sql]
    Keywords,     \* [name, count, words, context, complex]
    Signatures,   \* [size]: the messages with one signature, five at most
    Proposals,    \* patterns of the LLM: [tier, risk, level, other, generic, sql]
    Standalone,   \* rules of the LLM without pattern: [sql, semicolons]
    Clusters,     \* groups of similar messages: [size, similarity]
    Concepts,     \* key concepts of a cluster: sequences of the kinds in `likes`
    Total,        \* spam messages of the run
    MinUrl, MinKeyword,
    UrlLimit, KeywordLimit, WordLimit,
    SpamThreshold,   \* of the domain classifier, in percent
    Mode,            \* of SqlSafety
    MaxDiscoveries   \* bound: runs

VARIABLES
    known,        \* names of the URL and keyword patterns in the database
    rows,         \* rules: [sql, original, classified, source]
    mining,       \* the run under way, or the last one
    made,         \* history: what the run stored
    discoveries   \* runs so far

discoveryVars == <<known, rows, mining, made, discoveries>>

\* `todo` is what the stage has left, `later` the rules of the LLM's answer and
\* `item` the rule in hand; `sum` what the run counted, `extra` what the stage of the
\* LLM counts apart.  `llm` is history: what that stage stored.
None == [patterns |-> 0, rules |-> 0]
NoMining == [pc |-> "idle", engine |-> Nothing, checked |-> FALSE, semantic |-> FALSE,
             todo |-> {}, later |-> {}, item |-> {}, sum |-> None, extra |-> None,
             llm |-> None, cut |-> FALSE]

\* What the constants are; a module that instantiates this one assumes it.
DiscoveryAssumption ==
    /\ Urls \subseteq [name: STRING, within: SUBSET STRING, count: Nat, ham: Nat,
                        generic: BOOLEAN, white: BOOLEAN, marks: Nat, sql: SqlRecords]
    /\ Keywords \subseteq [name: STRING, count: Nat, context: Nat, complex: BOOLEAN,
                            words: Seq([kind: Likes, statement: BOOLEAN])]
    /\ Proposals \subseteq [tier: {"SAFE_AUTO", "REVIEW_ONLY", "DANGEROUS", "INSIGHT_ONLY"},
                             risk: Nat, level: {Nothing} \cup STRING,
                             other: {Nothing} \cup STRING, generic: BOOLEAN,
                             sql: SqlRecords \cup {Nothing}]
    /\ Standalone \subseteq [sql: SqlRecords, semicolons: Nat]
    /\ Concepts \subseteq Seq(Likes)
    /\ MaxDiscoveries \in Nat

DiscoveryTypeOK ==
    /\ known \subseteq {u.name : u \in Urls} \cup {k.name : k \in Keywords}
    /\ \A r \in rows : r.sql \in SqlRecords /\ r.original \in SqlRecords
    /\ mining.pc \in {"idle", "url", "url rule", "keyword", "keyword rule", "signature",
                      "llm", "llm rule", "cluster", "cluster rule", "done"}
    /\ \A count \in {mining.sum, mining.extra, mining.llm, made} :
          count.patterns \in Nat /\ count.rules \in Nat
    /\ discoveries \in 0..MaxDiscoveries

DiscoveryInit ==
    /\ known = {} /\ rows = {} /\ mining = NoMining /\ made = None
    /\ discoveries = 0

-----------------------------------------------------------------------------
(* The filters *)

\* is_url_safe
UrlSafe(u) == u.count >= 3 /\ ~u.generic /\ (u.ham = 0 \/ u.count >= 5 * u.ham)
UrlsFiltered == {u \in Urls : u.count >= MinUrl /\ UrlSafe(u)}

\* DomainClassifier: a white name anywhere in the domain, else the indicators in
\* the URL, of which three are all.
Reputation(u) ==
    IF u.white THEN "whitelisted"
    ELSE IF u.marks >= 3 \/ 100 * u.marks >= 3 * SpamThreshold THEN "suspicious"
    ELSE "legitimate"

UrlsTaken ==
    {u \in UrlsFiltered :
        \/ Reputation(u) = "suspicious"
        \/ Reputation(u) = "legitimate" /\ u.count >= 10}

\* is_keyword_safe looks for the name of a pattern in the ham, where it is not:
\* what is left is 5 % of the spam.
KeywordSafe(k) == 20 * k.count >= Total
KeywordsTaken == {k \in Keywords : k.count >= MinKeyword /\ KeywordSafe(k)}

\* The first n of a list whose order the counts leave open.
FirstFew(S, n) ==
    {T \in SUBSET S : Cardinality(T) = IF Cardinality(S) <= n THEN Cardinality(S) ELSE n}

-----------------------------------------------------------------------------
(* The text of a rule for a keyword pattern *)

Plain == [head |-> "select", has |-> {}, tables |-> <<"messages">>, columns |-> {"id"},
          refs |-> {"text"}, where |-> "conds", likes |-> {}, n |-> 0, ors |-> 0,
          conj |-> "no"]

\* n conditions with LIKE, joined by OR.
WithLikes(kinds, found, n) ==
    [Plain EXCEPT !.likes = kinds, !.has = found, !.n = n, !.ors = n - 1]

ContextLikes == {"safe", "word", "phrase"}

\* The words of a pattern pass through a set, so which of them come first changes
\* from process to process.  A pattern that is no list of words gives none.
WordsTaken(k) == IF k.complex THEN {{}} ELSE FirstFew(DOMAIN k.words, WordLimit)

KindsOf(k, W) == {k.words[w].kind : w \in W}
FoundIn(k, W) == IF \E w \in W : k.words[w].statement THEN {"keyword"} ELSE {}

\* One LIKE for each word, or the regular expression without LIKE; and the context
\* that some patterns ask for.
OfWords(k, W) ==
    IF W = {} THEN Plain ELSE WithLikes(KindsOf(k, W), FoundIn(k, W), Cardinality(W))

WithContext(k, s) ==
    IF k.context = 0 THEN s
    ELSE [s EXCEPT !.likes = @ \cup ContextLikes, !.n = @ + k.context + 1,
                   !.ors = @ + k.context, !.conj = "yes"]

KeywordTexts(k) == {WithContext(k, OfWords(k, W)) : W \in WordsTaken(k)}

\* A dangerous text becomes a comment.
BugDisarmed(s) == s
Disarmed(s) == IF Dangerous(s) THEN [s EXCEPT !.head = "comment"] ELSE s

-----------------------------------------------------------------------------
(* Steps *)

At(pc) == mining.pc = pc
Set(new) == mining' = new

Plus(count, patterns, rules) ==
    [patterns |-> count.patterns + patterns, rules |-> count.rules + rules]

Stored(patterns, rules) == made' = Plus(made, patterns, rules)

NewRule(sql, original, classified, source) ==
    rows' = rows \cup {[sql |-> sql, original |-> original, classified |-> classified,
                        source |-> source]}

\* create_mining_engine
EngineOf(provider, url) ==
    CASE provider \in {"openai", "default"} -> "openai"
      [] provider = "local" /\ url -> "local"
      [] OTHER -> Nothing

StartDiscovery(engine, checked, semantic) ==
    /\ mining.pc \in {"idle", "done"} /\ discoveries < MaxDiscoveries
    /\ \E urls \in FirstFew(UrlsTaken, UrlLimit) :
          Set([NoMining EXCEPT !.pc = "url", !.engine = engine, !.checked = checked,
                               !.semantic = semantic, !.todo = urls])
    /\ made' = None /\ discoveries' = discoveries + 1
    /\ UNCHANGED <<known, rows>>

\* A feature that has its pattern already.
BugSkipped(f) == [mining EXCEPT !.todo = @ \ {f}, !.sum = Plus(@, 1, 0)]
Skipped(f) == [mining EXCEPT !.todo = @ \ {f}]

\* _create_url_pattern: a URL within the name of a pattern is a duplicate.
UrlPattern(u) ==
    /\ At("url") /\ u \in mining.todo
    /\ IF known \cap u.within # {}
       THEN Set(Skipped(u)) /\ UNCHANGED <<known, made>>
       ELSE /\ known' = known \cup {u.name}
            /\ Stored(1, 0)
            /\ Set([mining EXCEPT !.pc = "url rule", !.todo = @ \ {u}, !.item = {u.sql},
                                  !.sum = Plus(@, 1, 0)])
    /\ UNCHANGED <<rows, discoveries>>

\* _create_keyword_pattern
KeywordPattern(k) ==
    /\ At("keyword") /\ k \in mining.todo
    /\ IF k.name \in known
       THEN Set(Skipped(k)) /\ UNCHANGED <<known, made>>
       ELSE /\ known' = known \cup {k.name}
            /\ Stored(1, 0)
            /\ \E sql \in KeywordTexts(k) :
                  Set([mining EXCEPT !.pc = "keyword rule", !.todo = @ \ {k},
                                     !.item = {sql}, !.sum = Plus(@, 1, 0)])
    /\ UNCHANGED <<rows, discoveries>>

\* _create_url_rule and _create_keyword_rule
CountedRule(from, to) ==
    /\ At(from)
    /\ \E sql \in mining.item : NewRule(Disarmed(sql), sql, TRUE, Nothing)
    /\ Stored(0, 1)
    /\ Set([mining EXCEPT !.pc = to, !.item = {}, !.sum = Plus(@, 0, 1)])
    /\ UNCHANGED <<known, discoveries>>

UrlsDone ==
    /\ At("url") /\ mining.todo = {}
    /\ \E keywords \in FirstFew(KeywordsTaken, KeywordLimit) :
          Set([mining EXCEPT !.pc = "keyword", !.todo = keywords])
    /\ UNCHANGED <<known, rows, made, discoveries>>

KeywordsDone ==
    /\ At("keyword") /\ mining.todo = {}
    /\ Set([mining EXCEPT !.pc = "signature", !.todo = Signatures])
    /\ UNCHANGED <<known, rows, made, discoveries>>

\* A signature gives no rule.
SignaturePattern(g) ==
    /\ At("signature") /\ g \in mining.todo
    /\ LET n == IF g.size >= 5 THEN 1 ELSE 0 IN
       /\ Stored(n, 0)
       /\ Set([mining EXCEPT !.todo = @ \ {g}, !.sum = Plus(@, n, 0)])
    /\ UNCHANGED <<known, rows, discoveries>>

-----------------------------------------------------------------------------
(* LLMResponsePostprocessor *)

Low(level) == level \in {"LOW", "low"}

\* _apply_safety_checks
Checked(p) ==
    IF (p.tier = "DANGEROUS" /\ p.risk > 75) \/ Low(p.level)
    THEN [p EXCEPT !.tier = "INSIGHT_ONLY", !.sql = Nothing] ELSE p

\* _align_risk_and_tier
Aligned(p) ==
    [p EXCEPT !.tier =
        CASE @ = "SAFE_AUTO" /\ p.risk >= 10 -> "REVIEW_ONLY"
          [] @ = "REVIEW_ONLY" /\ p.risk >= 30 -> "DANGEROUS"
          [] @ = "DANGEROUS" /\ p.risk > 75 -> "INSIGHT_ONLY"
          [] OTHER -> @]

\* _clean_sql takes one semicolon off every rule, once for each pattern.
Cleaned(r, patterns) ==
    IF r.semicolons > patterns THEN [r.sql EXCEPT !.has = @ \cup {"semicolon"}] ELSE r.sql

\* should_downgrade_to_insight_only, of a pattern without rule: LOW in capitals,
\* under either name.
BugInsightOnly(p) == p.tier = "INSIGHT_ONLY"
InsightOnly(p) ==
    \/ p.tier = "INSIGHT_ONLY"
    \/ p.risk > 75
    \/ (IF p.level = Nothing THEN p.other ELSE p.level) = "LOW"
    \/ p.generic

-----------------------------------------------------------------------------
(* _llm_pattern_discovery *)

\* _cluster_messages_dbscan keeps the groups that are similar throughout; without
\* the library all groups are kept.
Kept(library) ==
    {c \in Clusters : library => c.size >= 3 /\ c.similarity >= 30}

\* _generate_embeddings fails as a whole, also when a vector is missing.  Without
\* vectors there are no groups.
Clustered(embedded, library) == IF embedded THEN Kept(library) ELSE {}

\* Too little spam gives nothing either.
SemanticInputs == {Clustered(embedded, library) : embedded, library \in BOOLEAN}

\* The semantic stage comes next, if it is on.
AfterLlm(m) ==
    IF m.semantic
    THEN {[m EXCEPT !.pc = "cluster", !.todo = clusters, !.later = {}, !.item = {}] :
              clusters \in SemanticInputs}
    ELSE {[m EXCEPT !.pc = "done", !.todo = {}, !.later = {}, !.item = {}]}

\* discover_patterns: no answer without the library of the engine, on an error of
\* the service and for what is no JSON.
Answers == [patterns: SUBSET Proposals, rules: SUBSET Standalone]
OpenAIReplies(library) == IF library THEN Answers \cup {Nothing} ELSE {Nothing}
LocalReplies == Answers \cup {Nothing}

Replies(engine) ==
    CASE engine = "openai" -> UNION {OpenAIReplies(library) : library \in BOOLEAN}
      [] engine = "local" -> LocalReplies
      [] OTHER -> {Nothing}

\* The patterns of an answer come before its rules; without patterns no rule is
\* cleaned.
SignaturesDone ==
    /\ At("signature") /\ mining.todo = {}
    /\ \E reply \in Replies(mining.engine) :
          IF reply = Nothing THEN mining' \in AfterLlm(mining)
          ELSE Set([mining EXCEPT !.pc = "llm", !.todo = reply.patterns,
                       !.later = {Cleaned(r, Cardinality(reply.patterns)) : r \in reply.rules}])
    /\ UNCHANGED <<known, rows, made, discoveries>>

LlmPattern(p) ==
    /\ At("llm") /\ p \in mining.todo
    /\ Stored(1, 0)
    /\ LET q == Aligned(Checked(p))
           next == [mining EXCEPT !.todo = @ \ {p}, !.extra = Plus(@, 1, 0),
                                  !.llm = Plus(@, 1, 0)]
       IN Set(IF InsightOnly(q) \/ q.sql = Nothing THEN next
              ELSE [next EXCEPT !.pc = "llm rule", !.item = {[sql |-> q.sql, source |-> p]}])
    /\ UNCHANGED <<known, rows, discoveries>>

LlmStandalone(sql) ==
    /\ At("llm") /\ mining.todo = {} /\ sql \in mining.later
    /\ Set([mining EXCEPT !.pc = "llm rule", !.later = @ \ {sql},
                          !.item = {[sql |-> sql, source |-> Nothing]}])
    /\ UNCHANGED <<known, rows, made, discoveries>>

\* The client of the local engine is none that the validator can use.
Risks == IF mining.engine = "local" THEN {"unknown"} ELSE ValidatorAnswers(TRUE)

\* _process_llm_rule refuses the text, or the validator calls its risk high.
LlmRuleRefused ==
    /\ At("llm rule")
    /\ \E i \in mining.item :
          \/ \E matches \in {0, 81}, fails \in BOOLEAN :
                ~CoverageAllowed(i.sql, Mode, 100, matches, fails)
          \/ mining.checked /\ Valid(i.sql, Mode) /\ "high" \in Risks
    /\ Set([mining EXCEPT !.pc = "llm", !.item = {}])
    /\ UNCHANGED <<known, rows, made, discoveries>>

LlmRuleStored ==
    /\ At("llm rule") /\ mining.checked
    /\ \E i \in mining.item :
          /\ CoverageAllowed(i.sql, Mode, 100, 80, FALSE)
          /\ NewRule(Disarmed(i.sql), i.sql, TRUE, i.source)
    /\ Stored(0, 1)
    /\ Set([mining EXCEPT !.pc = "llm", !.item = {}, !.extra = Plus(@, 0, 1),
                          !.llm = Plus(@, 0, 1)])
    /\ UNCHANGED <<known, discoveries>>

\* What is left of a stage that raised: it reports nothing, and its other
\* proposals are dropped.
Dropped == [mining EXCEPT !.extra = None, !.cut = TRUE]

\* Without a validator the rule is stored as it is; naming its category, which
\* nothing has set, raises then.
LlmRuleUnchecked ==
    /\ At("llm rule") /\ ~mining.checked
    /\ \E i \in mining.item :
          /\ CoverageAllowed(i.sql, Mode, 100, 80, FALSE)
          /\ NewRule(i.sql, i.sql, FALSE, i.source)
    /\ Stored(0, 1)
    /\ mining' \in AfterLlm([Dropped EXCEPT !.llm = Plus(@, 0, 1)])
    /\ UNCHANGED <<known, discoveries>>

\* Any other exception: an answer of another form, the database.
LlmRaises ==
    /\ mining.pc \in {"llm", "llm rule"}
    /\ mining' \in AfterLlm(Dropped)
    /\ UNCHANGED <<known, rows, made, discoveries>>

LlmDone ==
    /\ At("llm") /\ mining.todo = {} /\ mining.later = {}
    /\ mining' \in AfterLlm([mining EXCEPT !.extra = None,
                                !.sum = Plus(@, mining.extra.patterns, mining.extra.rules)])
    /\ UNCHANGED <<known, rows, made, discoveries>>

-----------------------------------------------------------------------------
(* mine_semantic_patterns, _analyze_cluster_with_llm *)

\* _validate_semantic_rule on 20 spam and 50 ham messages: 85 % right, at most
\* 5 % of the ham.  A text without LIKE is taken to match the spam and no ham,
\* and an exception lets the rule pass.
SemanticAllowed(s, spam, ham, hamSample, fails) ==
    /\ Valid(s, Mode)
    /\ \/ fails
       \/ /\ spam + ham > 0
          /\ 100 * spam >= 85 * (spam + ham)
          /\ 100 * ham <= 5 * hamSample

\* _generate_semantic_rule: one LIKE for each of the first five concepts.
ConceptText(concepts) ==
    LET taken == SubSeq(concepts, 1, IF Len(concepts) > 5 THEN 5 ELSE Len(concepts)) IN
    WithLikes(Range(taken), {}, Len(taken))

\* The rule of the LLM, or one of the concepts that it or the messages give.
SemanticTexts ==
    {r.sql : r \in Standalone} \cup {ConceptText(c) : c \in Concepts \ {<<>>}}

\* Without an LLM there is a pattern and no rule; with one that gives no answer,
\* neither; and an answer without rule may have no concepts to make one of.  A
\* small cluster is passed over.
ClusterPattern(c) ==
    /\ At("cluster") /\ c \in mining.todo
    /\ LET skip == [mining EXCEPT !.todo = @ \ {c}]
           pattern == [skip EXCEPT !.sum = Plus(@, 1, 0)]
           answer == mining.engine # Nothing
       IN \/ (c.size < 3 \/ answer) /\ Set(skip) /\ UNCHANGED made
          \/ c.size >= 3 /\ (answer => <<>> \in Concepts) /\ Set(pattern) /\ Stored(1, 0)
          \/ /\ c.size >= 3 /\ answer /\ Stored(1, 0)
             /\ \E s \in SemanticTexts :
                   Set([pattern EXCEPT !.pc = "cluster rule", !.item = {s}])
    /\ UNCHANGED <<known, rows, discoveries>>

ClusterRule ==
    /\ At("cluster rule")
    /\ \E s \in mining.item, spam \in {0, 17, 20}, ham \in {0, 2, 3}, fails \in BOOLEAN :
          IF SemanticAllowed(s, spam, ham, 50, fails)
          THEN /\ NewRule(s, s, FALSE, Nothing)
               /\ Stored(0, 1)
               /\ Set([mining EXCEPT !.pc = "cluster", !.item = {}, !.sum = Plus(@, 0, 1)])
          ELSE /\ Set([mining EXCEPT !.pc = "cluster", !.item = {}])
               /\ UNCHANGED <<rows, made>>
    /\ UNCHANGED <<known, discoveries>>

ClustersDone ==
    /\ At("cluster") /\ mining.todo = {}
    /\ Set([mining EXCEPT !.pc = "done"])
    /\ UNCHANGED <<known, rows, made, discoveries>>

\* An exception outside the LLM's stage ends the run, which reports nothing.
DiscoveryFails ==
    /\ mining.pc \notin {"idle", "llm", "llm rule", "done"}
    /\ Set(NoMining)
    /\ UNCHANGED <<known, rows, made, discoveries>>

-----------------------------------------------------------------------------
DiscoveryNext ==
    \/ \E checked, semantic, useLlm \in BOOLEAN, url \in BOOLEAN,
          provider \in {"openai", "local", "none"} :
          StartDiscovery(IF useLlm THEN EngineOf(provider, url) ELSE Nothing, checked, semantic)
    \/ \E u \in Urls : UrlPattern(u)
    \/ CountedRule("url rule", "url") \/ UrlsDone
    \/ \E k \in Keywords : KeywordPattern(k)
    \/ CountedRule("keyword rule", "keyword") \/ KeywordsDone
    \/ \E g \in Signatures : SignaturePattern(g)
    \/ SignaturesDone
    \/ \E p \in Proposals : LlmPattern(p)
    \/ \E sql \in mining.later : LlmStandalone(sql)
    \/ LlmRuleRefused \/ LlmRuleStored \/ LlmRuleUnchecked \/ LlmRaises \/ LlmDone
    \/ \E c \in Clusters : ClusterPattern(c)
    \/ ClusterRule \/ ClustersDone \/ DiscoveryFails

DiscoverySpec == DiscoveryInit /\ [][DiscoveryNext]_discoveryVars

-----------------------------------------------------------------------------
\* A rule whose text was dangerous when it was classified is stored in a form that
\* nothing runs: the checks in front of every execution, the coverage check, the
\* sample and the plan refuse it, with the SQL parser and without.
DangerousIsDisarmed ==
    \A r \in rows : r.classified /\ Dangerous(r.original) =>
        \A mode \in Modes :
            /\ ~Valid(r.sql, mode)
            /\ ~CoverageAllowed(r.sql, mode, 0, 0, FALSE)
            /\ ~SampleAllowed(r.sql, mode, FALSE)
            /\ ~PerformanceAllowed(r.sql, mode, 0, 0, TRUE)

\* A run that ends well reports the patterns and rules that it stored, duplicates,
\* refused rules and skipped clusters left out.  When the stage of the LLM raised,
\* what is missing in the report is exactly what that stage had stored by then:
\* nothing of the other stages, before it or after it.
ReportedIsStored ==
    At("done") =>
        made = IF mining.cut THEN Plus(mining.sum, mining.llm.patterns, mining.llm.rules)
               ELSE mining.sum

\* A pattern that the LLM calls too risky, unsure or no more than an insight gets
\* no rule, by whichever of the two filters it would have to pass; the rules that
\* come with the answer and name no pattern are not asked.
InsightHasNoRule ==
    \A r \in rows : r.source # Nothing =>
        /\ r.source.risk <= 75
        /\ ~Low(r.source.level)
        /\ r.source.tier # "INSIGHT_ONLY"
=============================================================================
