------------------------------ MODULE MCAnalysis ------------------------------
\* The instance of Analysis for TLC: what each part works on.
EXTENDS Analysis, TLC

CONSTANTS a1, a2, b, bare, z, odd, junk, old, t1, t2, k1, r1, r2, r3

-----------------------------------------------------------------------------
\* Ingestion: two messages with the same external id, one with another, one without
\* an id, one that the driver refuses, one that raises, a broken line, an old one.
MCItems == {a1, a2, b, bare, z, odd, junk, old}
MCExt == (a1 :> "a") @@ (a2 :> "a") @@ (b :> "b") @@ (z :> "z") @@ [i \in {bare, odd, junk, old} |-> NoId]
MCBatches == {<<a1, a2>>, <<odd, z, b>>}
File(kind, entries) == [kind |-> kind, entries |-> entries]
MCStorages ==
    {{}, {File("lines", <<junk, a2, bare>>), File("csv", <<b, odd, a1>>)},
     {File("array", <<old, bare, b>>), File("lines", <<a1>>), File("other", <<a2>>)}}

-----------------------------------------------------------------------------
\* SQL: up to three literals of five kinds, any conjunction and condition, and the
\* numbers of OR around every bound.
PlainSql == [head |-> "select", has |-> {}, tables |-> <<"messages">>, columns |-> {"id"},
             refs |-> {"text", "lower"}, where |-> "conds", likes |-> {"safe"}, n |-> 1,
             ors |-> 0, conj |-> "no"]
MCSql == {[PlainSql EXCEPT !.where = w, !.likes = ls, !.n = l, !.ors = o, !.conj = c] :
             w \in {"conds", "true", "spaced", "or", "none", "joined"}, ls \in SUBSET R!Likes, l \in 0..3,
             o \in {0, 2, 3, 5, 6, 7, 8}, c \in {"no", "within", "yes"}}
MCEvaluations == {{}, {[precision |-> 95, hits |-> 9]}, {[precision |-> 96, hits |-> 10]}}
MCSqls == [sql: {s \in MCSql : Cardinality(s.likes) <= s.n},
         risk: {Nothing, "low", "medium", "unknown"}, evals: MCEvaluations]

\* Patterns: hits around every bound of a tier.
MCCounts == [spam: 0..120, ham: 0..6, total: {0, 40, 100, 600}]

-----------------------------------------------------------------------------
\* Three rules, room for two and one worker more.
MCSqlOf == [r \in {r1, r2, r3} |->
               IF r = r1 THEN PlainSql ELSE [PlainSql EXCEPT !.tables = <<"users">>]]

-----------------------------------------------------------------------------
\* Discovery: a URL and a longer one with it inside, a white and a rare one; the
\* two words of a contact, of which the rule takes one, and capitals in context.
\* The LLM proposes a pattern with too much risk, an unsure one and one with a
\* stop word, and a rule with two semicolons.
Word(kind, statement) == [kind |-> kind, statement |-> statement]
Url(name, within, count, white, marks, like) ==
    [name |-> name, within |-> within, count |-> count, ham |-> 0, generic |-> FALSE,
     white |-> white, marks |-> marks, sql |-> [PlainSql EXCEPT !.likes = {like}]]
MCUrls == {Url("u", {"u", "u/x"}, 6, FALSE, 2, "safe"), Url("u/x", {"u/x"}, 10, FALSE, 1, "phrase"),
           Url("w", {"w"}, 20, TRUE, 3, "phrase"), Url("few", {"few"}, 6, FALSE, 1, "phrase")}
MCKeywords ==
    {[name |-> "contact", count |-> 10, context |-> 0, complex |-> FALSE,
      words |-> <<Word("short", FALSE), Word("word", TRUE)>>],
     [name |-> "caps", count |-> 12, context |-> 7, complex |-> TRUE, words |-> <<>>]}
Proposal(tier, risk, level, like) ==
    [tier |-> tier, risk |-> risk, level |-> level, other |-> "high", generic |-> FALSE,
     sql |-> [PlainSql EXCEPT !.likes = {like}]]
MCProposals == {Proposal("SAFE_AUTO", 80, "high", "safe"), Proposal("REVIEW_ONLY", 20, "low", "safe"),
                Proposal("REVIEW_ONLY", 20, Nothing, "stop")}
MCStandalone == {[sql |-> [PlainSql EXCEPT !.likes = {"word"}], semicolons |-> 2]}

MCSignatures == {[size |-> 5]}
MCClusters == {[size |-> 2, similarity |-> 90], [size |-> 4, similarity |-> 20]}
MCConcepts == {<<>>, <<"safe", "stop">>}
===============================================================================
